---- MODULE Spec2Model ----
(***************************************************************************)
(* A model of the apiflow reverse proxy (src-tauri/src): the request       *)
(* pipeline of proxy_handler (auth gate, router, attempt engine, response  *)
(* forwarder), the log ring and the stats map.                             *)
(*                                                                         *)
(* Conventions.  A Rust String is a sequence of characters; a run of       *)
(* characters that no operation of the program looks into ("Bearer", a     *)
(* host name, a key) is written as one element.  Option<T> is a sequence   *)
(* of length at most one: None is << >> and Some(x) is << x >>.  A header  *)
(* map is a sequence of << name, value >> pairs with lower-case names, as  *)
(* http::HeaderMap stores them.                                            *)
(***************************************************************************)
EXTENDS Naturals, Integers, Sequences, FiniteSets, TLC

VARIABLES
    config,        \* the running listener's config cell (SharedState.config)
    logs,          \* the log ring (SharedState.logs)
    stats,         \* the stats map (SharedState.stats): upstream_id -> record
    pc,            \* per request: the await point its handler / task is at
    req,           \* per request: the inbound request (path, headers)
    snap,          \* per request: the config clone taken at admission
    route,         \* per request: the resolved upstreams (RouteInfo.upstreams)
    entry,         \* per request: the handler's local ProxyLogEntry
    up_idx,        \* per request: index of the outer loop (0-based)
    attempt,       \* per request: index of the inner loop
    attempt_errors,\* per request: the errors of its failed attempts
    resp,          \* per request: the committed upstream response
    client,        \* per request: what the client has received
    hist,          \* per request: what it did (dispatches, upserts, stats calls)
    state_config,  \* ProxyState.config: the snapshot the commands store
    http_client,   \* ProxyState.client: the outbound proxy it was built with
    inner,         \* ProxyState.inner: the ports that have a running listener
    command,       \* the commands called so far and the reply to the last one
    pure           \* scratch cell of the specifications of the pure functions

vars == << config, logs, stats, pc, req, snap, route, entry, up_idx, attempt,
           attempt_errors, resp, client, hist, state_config, http_client,
           inner, command, pure >>

appVars == << state_config, http_client, inner, command >>

reqVars == << pc, req, snap, route, entry, up_idx, attempt, attempt_errors,
              resp, client, hist >>

----------------------------------------------------------------------------
(* Bounds of the model *)

MaxRetries == 2

MaxChunks == 2

RingSteps == 3

(* Program constants *)

MAX_LOGS == 200

MAX_FALLBACK_RETRIES == 10

----------------------------------------------------------------------------
(* Option and string helpers *)

None == << >>

Some(x) == << x >>

IsSome(o) == Len(o) = 1

Unwrap(o) == o[1]

Min(a, b) == IF a < b THEN a ELSE b

SaturatingSub(a, b) == IF a > b THEN a - b ELSE 0

starts_with(s, p) == Len(p) <= Len(s) /\ SubSeq(s, 1, Len(p)) = p

ends_with_slash(s) == Len(s) > 0 /\ s[Len(s)] = "/"

starts_with_slash(s) == Len(s) > 0 /\ s[1] = "/"

DropFront(s, n) == SubSeq(s, n + 1, Len(s))

IsSpace(c) == c = " "

RECURSIVE trim_start(_)
trim_start(s) ==
    IF s # << >> /\ IsSpace(Head(s)) THEN trim_start(Tail(s)) ELSE s

RECURSIVE trim_end(_)
trim_end(s) ==
    IF s # << >> /\ IsSpace(s[Len(s)]) THEN trim_end(SubSeq(s, 1, Len(s) - 1)) ELSE s

trim(s) == trim_end(trim_start(s))

SeqMap(s, F(_)) == [i \in 1..Len(s) |-> F(s[i])]

Range(s) == {s[i] : i \in 1..Len(s)}

----------------------------------------------------------------------------
(* helpers.rs *)

strip_base_path(path, base) ==
    IF base = << "/" >> THEN path
    ELSE IF starts_with(path, base) THEN DropFront(path, Len(base))
    ELSE path

build_upstream_url(base, path_and_query) ==
    LET r1 == IF ~ends_with_slash(base) /\ ~starts_with_slash(path_and_query)
              THEN Append(base, "/") ELSE base
        r2 == IF ends_with_slash(r1) /\ starts_with_slash(path_and_query)
              THEN SubSeq(r1, 1, Len(r1) - 1) ELSE r1
    IN  r2 \o path_and_query

(* HeaderValue::to_str fails on a value that is not visible ASCII; the dumps
   then print the text <binary>. *)
BinaryValue == << "\\xff" >>

to_str_or_binary(v) == IF v = BinaryValue THEN << "<binary>" >> ELSE v

(* One line "name: value" of a header dump; the dump is its lines, joined
   by line breaks in the program. *)
HeaderLine(name, value) == << name, ": " >> \o value

LogHeaderKept(h) == h[1] # "authorization" /\ h[1] # "x-proxy-key"

FormatLine(h) == HeaderLine(h[1], to_str_or_binary(h[2]))

format_headers(headers) == SeqMap(SelectSeq(headers, LogHeaderKept), FormatLine)

(* HeaderMap::get: the first value stored under the name. *)
HeaderGet(headers, name) ==
    LET idx == {i \in 1..Len(headers) : headers[i][1] = name}
    IN  IF idx = {} THEN None
        ELSE Some(headers[CHOOSE i \in idx : \A j \in idx : i <= j][2])

BearerPrefix == << "Bearer", " " >>

KeyFromProxyHeader(headers) ==
    LET v == HeaderGet(headers, "x-proxy-key")
    IN  IF IsSome(v) /\ Unwrap(v) # BinaryValue /\ trim(Unwrap(v)) # << >>
        THEN Some(trim(Unwrap(v))) ELSE None

KeyFromAuthorization(headers) ==
    LET v == HeaderGet(headers, "authorization")
    IN  IF IsSome(v) /\ Unwrap(v) # BinaryValue
        THEN LET trimmed == trim(Unwrap(v))
             IN  IF starts_with(trimmed, BearerPrefix)
                 THEN (IF DropFront(trimmed, Len(BearerPrefix)) # << >>
                       THEN Some(DropFront(trimmed, Len(BearerPrefix))) ELSE None)
                 ELSE IF trimmed # << >> THEN Some(trimmed) ELSE None
        ELSE None

(* Authorization is looked at before x-proxy-key. *)
extract_proxy_key_authorization_first(headers) ==
    IF IsSome(KeyFromAuthorization(headers)) THEN KeyFromAuthorization(headers)
    ELSE KeyFromProxyHeader(headers)

extract_proxy_key(headers) ==
    IF IsSome(KeyFromProxyHeader(headers)) THEN KeyFromProxyHeader(headers)
    ELSE KeyFromAuthorization(headers)

----------------------------------------------------------------------------
(* logging.rs *)

LogPosition(ring, id) ==
    LET idx == {i \in 1..Len(ring) : ring[i].id = id}
    IN  IF idx = {} THEN 0 ELSE CHOOSE i \in idx : \A j \in idx : i <= j

(* The entry is pushed without a look at the ids the ring holds. *)
upsert_log_always_pushes(ring, e) ==
    IF Len(ring) + 1 > MAX_LOGS THEN Tail(Append(ring, e)) ELSE Append(ring, e)

(* The ring is trimmed one entry too early. *)
upsert_log_trims_early(ring, e) ==
    IF LogPosition(ring, e.id) # 0
    THEN [ring EXCEPT ![LogPosition(ring, e.id)] = e]
    ELSE IF Len(ring) + 1 >= MAX_LOGS THEN Tail(Append(ring, e))
         ELSE Append(ring, e)

upsert_log(ring, e) ==
    IF LogPosition(ring, e.id) # 0
    THEN [ring EXCEPT ![LogPosition(ring, e.id)] = e]
    ELSE IF Len(ring) + 1 > MAX_LOGS THEN Tail(Append(ring, e))
         ELSE Append(ring, e)

NewStats(upstream_id, upstream_label) ==
    [upstream_id |-> upstream_id, upstream_label |-> upstream_label,
     total_requests |-> 0, success_count |-> 0, error_count |-> 0,
     total_duration_ms |-> 0]

StatsRecord(map, upstream_id, upstream_label) ==
    IF upstream_id \in DOMAIN map THEN map[upstream_id]
    ELSE NewStats(upstream_id, upstream_label)

(* A failed attempt is counted in total_requests only. *)
update_stats_drops_errors(map, upstream_id, upstream_label, duration_ms, success) ==
    LET old == StatsRecord(map, upstream_id, upstream_label)
        new == [old EXCEPT
                  !.total_requests = @ + 1,
                  !.total_duration_ms = @ + duration_ms,
                  !.success_count = IF success THEN @ + 1 ELSE @,
                  !.upstream_label =
                      IF @ = None /\ IsSome(upstream_label) THEN upstream_label ELSE @]
    IN  [k \in DOMAIN map \cup {upstream_id} |->
            IF k = upstream_id THEN new ELSE map[k]]

(* A label that is given replaces the one the record has. *)
update_stats_replaces_label(map, upstream_id, upstream_label, duration_ms, success) ==
    LET old == StatsRecord(map, upstream_id, upstream_label)
        new == [old EXCEPT
                  !.total_requests = @ + 1,
                  !.total_duration_ms = @ + duration_ms,
                  !.success_count = IF success THEN @ + 1 ELSE @,
                  !.error_count = IF success THEN @ ELSE @ + 1,
                  !.upstream_label = IF IsSome(upstream_label) THEN upstream_label ELSE @]
    IN  [k \in DOMAIN map \cup {upstream_id} |->
            IF k = upstream_id THEN new ELSE map[k]]

update_stats(map, upstream_id, upstream_label, duration_ms, success) ==
    LET old == StatsRecord(map, upstream_id, upstream_label)
        new == [old EXCEPT
                  !.total_requests = @ + 1,
                  !.total_duration_ms = @ + duration_ms,
                  !.success_count = IF success THEN @ + 1 ELSE @,
                  !.error_count = IF success THEN @ ELSE @ + 1,
                  !.upstream_label =
                      IF @ = None /\ IsSome(upstream_label) THEN upstream_label ELSE @]
    IN  [k \in DOMAIN map \cup {upstream_id} |->
            IF k = upstream_id THEN new ELSE map[k]]

----------------------------------------------------------------------------
(* lib.rs: router, auth gate, header rewriter *)

(* Vec::sort_by_key is stable.  The sort works on << key, item >> pairs:
   an item goes after the last one whose key is not larger. *)
RECURSIVE InsertByKey(_, _)
InsertByKey(sorted, x) ==
    IF sorted = << >> THEN << x >>
    ELSE IF x[1] < Head(sorted)[1] THEN << x >> \o sorted
         ELSE << Head(sorted) >> \o InsertByKey(Tail(sorted), x)

RECURSIVE SortPairs(_)
SortPairs(s) ==
    IF s = << >> THEN << >>
    ELSE InsertByKey(SortPairs(SubSeq(s, 1, Len(s) - 1)), s[Len(s)])

StableSortByKey(s, Key(_)) ==
    SeqMap(SortPairs(SeqMap(s, LAMBDA x : << Key(x), x >>)), LAMBDA p : p[2])

IsEnabled(x) == x.enabled

PriorityKey(u) == u.priority

(* Disabled upstreams are kept. *)
enabled_upstreams_sorted_unfiltered(upstreams) ==
    StableSortByKey(upstreams, PriorityKey)

enabled_upstreams_sorted(upstreams) ==
    StableSortByKey(SelectSeq(upstreams, IsEnabled), PriorityKey)

ServiceMatches(svc, path) ==
    svc.base_path = << "/" >> \/ starts_with(path, svc.base_path)

(* The key without Reverse: the shortest base_path sorts first. *)
ReverseLenKey_ascending(svc) == Len(svc.base_path)

(* Reverse(len) as a sort key: a longer base_path sorts first. *)
ReverseLenKey(svc) == 0 - Len(svc.base_path)

select_service(cfg, path) ==
    LET enabled == SelectSeq(cfg.services, IsEnabled)
        candidates == SelectSeq(enabled, LAMBDA svc : ServiceMatches(svc, path))
        sorted == StableSortByKey(candidates, ReverseLenKey)
    IN  IF sorted = << >> THEN None ELSE Some(Head(sorted))

ResolvedUpstream(u, trimmed_path) ==
    [upstream_url |-> build_upstream_url(u.upstream_base, trimmed_path),
     upstream_id |-> u.id,
     upstream_label |-> u.label,
     api_key |-> u.api_key]

resolve_route(cfg, path) ==
    LET service == select_service(cfg, path)
    IN  IF service = None THEN None
        ELSE LET svc == Unwrap(service)
                 trimmed_path == strip_base_path(path, svc.base_path)
                 enabled_upstreams == enabled_upstreams_sorted(svc.upstreams)
             IN  IF enabled_upstreams = << >> THEN None
                 ELSE Some([service_name |-> svc.name,
                            service_base |-> svc.base_path,
                            upstreams |-> SeqMap(enabled_upstreams,
                                LAMBDA u : ResolvedUpstream(u, trimmed_path))])

(* Ok is TRUE; Err((401, msg)) is FALSE. *)
check_auth(cfg, headers) ==
    IF IsSome(cfg.global_key)
    THEN extract_proxy_key(headers) = Some(Unwrap(cfg.global_key))
    ELSE TRUE

(* Only server errors are retried. *)
should_retry_status_server_errors(status) ==
    status >= 500 /\ status <= 599

should_retry_status(status) ==
    (status >= 500 /\ status <= 599) \/ status = 429 \/ status = 408

IsErrorStatus(status) == status >= 400 /\ status <= 599

HasHeader(headers, name) == \E i \in 1..Len(headers) : headers[i][1] = name

(* The loop over the inbound headers: what is passed on to the builder. *)
ForwardedHeader(h) ==
    /\ h[1] # "host"
    /\ h[1] # "content-length"
    /\ h[1] # "authorization"
    /\ h[1] # "x-goog-api-key"
    /\ h[1] # "x-proxy-key"

(* HeaderMap::iter yields the last value captured for a repeated name. *)
LastValue(headers, name) ==
    LET idx == {i \in 1..Len(headers) : headers[i][1] = name}
    IN  IF idx = {} THEN None
        ELSE Some(headers[CHOOSE i \in idx : \A j \in idx : j <= i][2])

(* The client's scheme is not looked at: the key always goes out as Bearer. *)
InjectedAuth_always_bearer(headers, api_key) ==
    IF IsSome(api_key)
    THEN << << "authorization", BearerPrefix \o Unwrap(api_key) >> >>
    ELSE << >>

(* The credential the match on api_key adds, as header pairs. *)
InjectedAuth(headers, api_key) ==
    LET uses_goog_api_key == HasHeader(headers, "x-goog-api-key")
        client_auth_header == LastValue(headers, "authorization")
        client_goog_key == LastValue(headers, "x-goog-api-key")
    IN  IF IsSome(api_key)
        THEN IF uses_goog_api_key
             THEN << << "x-goog-api-key", Unwrap(api_key) >> >>
             ELSE << << "authorization", BearerPrefix \o Unwrap(api_key) >> >>
        ELSE (IF IsSome(client_goog_key)
              THEN << << "x-goog-api-key", Unwrap(client_goog_key) >> >> ELSE << >>)
             \o
             (IF IsSome(client_auth_header)
              THEN << << "authorization", Unwrap(client_auth_header) >> >> ELSE << >>)

(* prepare_upstream_request returns the builder and the dump of the headers
   it was given: .headers is the outbound header set, .headers_str the dump
   (upstream_headers rendered line by line, nothing filtered). *)
prepare_upstream_request(headers, api_key) ==
    LET outbound == SelectSeq(headers, ForwardedHeader) \o InjectedAuth(headers, api_key)
    IN  [headers |-> outbound,
         headers_str |-> SeqMap(outbound, FormatLine)]

IsStreamingContentType(headers) ==
    LET ct == HeaderGet(headers, "content-type")
    IN  /\ IsSome(ct)
        /\ Unwrap(ct) # BinaryValue
        /\ \E i \in 1..Len(Unwrap(ct)) :
              Unwrap(ct)[i] \in {"text/event-stream", "application/x-ndjson", "text/plain"}

(* Byte strings.  A body is a sequence of bytes; a run of bytes that stands
   for a block of ASCII text is written as one element, and InvalidByte is a
   byte that is not valid UTF-8. *)
Block2k == "<2000 bytes of text>"

Block80k == "<80000 bytes of text>"

InvalidByte == "<byte FF>"

ReplacementChar == "<U+FFFD>"

TokenBytes(t) ==
    CASE t = Block2k -> 2000
      [] t = Block80k -> 80000
      [] t = ReplacementChar -> 3
      [] OTHER -> 1

TokenChars(t) ==
    CASE t = Block2k -> 2000
      [] t = Block80k -> 80000
      [] OTHER -> 1

RECURSIVE ByteLen(_)
ByteLen(s) == IF s = << >> THEN 0 ELSE TokenBytes(Head(s)) + ByteLen(Tail(s))

(* chars().take(n) *)
RECURSIVE TakeChars(_, _)
TakeChars(s, n) ==
    IF s = << >> \/ TokenChars(Head(s)) > n THEN << >>
    ELSE << Head(s) >> \o TakeChars(Tail(s), n - TokenChars(Head(s)))

(* String::from_utf8_lossy: every invalid byte becomes U+FFFD. *)
from_utf8_lossy(bytes) ==
    [i \in 1..Len(bytes) |-> IF bytes[i] = InvalidByte THEN ReplacementChar ELSE bytes[i]]

(* max_len is not used: the whole body is kept. *)
truncate_body(bytes, max_len) ==
    IF bytes = << >> THEN None ELSE Some(from_utf8_lossy(bytes))

----------------------------------------------------------------------------
(* The commands' helpers: helpers.rs normalize_base_path, build_client, and
   the normalization start_proxy and reload_proxy share *)

RECURSIVE trim_end_matches_slash(_)
trim_end_matches_slash(s) ==
    IF s # << >> /\ s[Len(s)] = "/"
    THEN trim_end_matches_slash(SubSeq(s, 1, Len(s) - 1))
    ELSE s

(* while p.ends_with('/') && p.len() > 1 { p.pop(); } *)
RECURSIVE PopSlashes(_)
PopSlashes(p) ==
    IF Len(p) > 1 /\ p[Len(p)] = "/"
    THEN PopSlashes(SubSeq(p, 1, Len(p) - 1))
    ELSE p

(* The trailing slashes are left in place. *)
normalize_base_path_keeps_slashes(path) ==
    LET p == trim(path)
    IN  IF p = << >> THEN << "/" >>
        ELSE IF p[1] # "/" THEN << "/" >> \o p ELSE p

normalize_base_path(path) ==
    LET p == trim(path)
    IN  IF p = << >> THEN << "/" >>
        ELSE PopSlashes(IF p[1] # "/" THEN << "/" >> \o p ELSE p)

(* Option::filter(|s| !s.trim().is_empty()): the value itself is kept. *)
FilterNonBlank(opt) == IF IsSome(opt) /\ trim(Unwrap(opt)) # << >> THEN opt ELSE None

(* Option::map(trim).filter(|s| !s.is_empty()) *)
TrimmedNonEmpty(opt) ==
    IF IsSome(opt) /\ trim(Unwrap(opt)) # << >> THEN Some(trim(Unwrap(opt))) ELSE None

NormalizeUpstream(u) ==
    [id |-> u.id,
     label |-> TrimmedNonEmpty(u.label),
     upstream_base |-> trim_end_matches_slash(trim(u.upstream_base)),
     api_key |-> FilterNonBlank(u.api_key),
     priority |-> u.priority,
     enabled |-> u.enabled]

HasUpstreamBase(u) == u.upstream_base # << >>

NormalizeService(svc) ==
    [id |-> svc.id,
     name |-> trim(svc.name),
     base_path |-> normalize_base_path(svc.base_path),
     enabled |-> svc.enabled,
     upstreams |-> SelectSeq(SeqMap(svc.upstreams, NormalizeUpstream), HasUpstreamBase)]

HasUpstreams(svc) == svc.upstreams # << >>

SortUpstreams(svc) ==
    [svc EXCEPT !.upstreams = StableSortByKey(svc.upstreams, PriorityKey)]

(* The services a command stores: mapped, the empty ones dropped, each one's
   upstreams sorted by priority. *)
NormalizeServices(services) ==
    SeqMap(SelectSeq(SeqMap(services, NormalizeService), HasUpstreams), SortUpstreams)

ClampRetries(n) == Min(n, MAX_FALLBACK_RETRIES)

NormalizeConfig(cfg) ==
    [listen_port |-> cfg.listen_port,
     global_key |-> FilterNonBlank(cfg.global_key),
     proxy_url |-> FilterNonBlank(cfg.proxy_url),
     fallback_retries |-> ClampRetries(cfg.fallback_retries),
     services |-> NormalizeServices(cfg.services)]

(* reqwest::Proxy::all rejects a URL it cannot parse. *)
BadProxyUrl == << "::not a url" >>

ProxyUrlParses(url) == url # BadProxyUrl

(* build_client: Ok is the client, told apart by the proxy it goes through;
   a blank url means no proxy. *)
BuildClientFails(proxy_url) ==
    /\ IsSome(proxy_url)
    /\ trim(Unwrap(proxy_url)) # << >>
    /\ ~ProxyUrlParses(Unwrap(proxy_url))

build_client(proxy_url) == FilterNonBlank(proxy_url)

NoCommand == [calls |-> 0, cmd |-> "none", error |-> None, port |-> None]

(* The state a successful start_proxy(config) leaves behind. *)
Started ==
    /\ state_config = Some(config)
    /\ http_client = build_client(config.proxy_url)
    /\ inner = {config.listen_port}
    /\ command = NoCommand

----------------------------------------------------------------------------
(* The configurations and the inbound requests the model runs *)

(* One request is followed through the pipeline.  Handler tasks share only
   the log ring and the stats map, and touch them only through upsert_log
   and update_stats, each under its mutex. *)
Reqs == {1}

UpX == [id |-> "X", label |-> None, upstream_base |-> << "http://x" >>,
        api_key |-> None, priority |-> 0, enabled |-> FALSE]

UpA == [id |-> "A", label |-> Some(<< "primary" >>), upstream_base |-> << "http://a" >>,
        api_key |-> Some(<< "sk" >>), priority |-> 1, enabled |-> TRUE]

UpB == [id |-> "B", label |-> None, upstream_base |-> << "http://b" >>,
        api_key |-> None, priority |-> 2, enabled |-> TRUE]

UpC == [id |-> "C", label |-> Some(<< "single" >>), upstream_base |-> << "http://c" >>,
        api_key |-> None, priority |-> 5, enabled |-> TRUE]

Services ==
    << [id |-> "s1", name |-> << "two" >>, base_path |-> << "/", "a" >>,
        enabled |-> TRUE, upstreams |-> << UpX, UpA, UpB >>],
       [id |-> "s2", name |-> << "one" >>, base_path |-> << "/", "b" >>,
        enabled |-> TRUE, upstreams |-> << UpC >>],
       [id |-> "s3", name |-> << "off" >>, base_path |-> << "/", "c" >>,
        enabled |-> TRUE, upstreams |-> << UpX >>] >>

GlobalKey == << "pk" >>

Configs ==
    {[listen_port |-> 8080, global_key |-> k, proxy_url |-> None,
      fallback_retries |-> n, services |-> Services] :
        k \in {None, Some(GlobalKey)}, n \in 0..MaxRetries}

ReqPaths ==
    { << "/", "a", "/", "x" >>, << "/", "b" >>, << "/", "c" >>, << "/", "z" >> }

ReqHeaders ==
    { << >>,
      << << "authorization", << "Bearer", " ", "pk" >> >> >>,
      << << "x-proxy-key", << " ", "pk", " " >> >>,
         << "authorization", << "Bearer", " ", "ck" >> >>,
         << "host", << "proxy.local" >> >> >>,
      << << "x-proxy-key", << " " >> >>, << "x-goog-api-key", << "ck" >> >> >>,
      << << "authorization", << "pk" >> >>, << "x-custom", << "v" >> >> >>,
      << << "x-proxy-key", << "bad" >> >>,
         << "authorization", << "Bearer", " ", "pk" >> >> >> }

(* What a dispatch can come back with: a transport error, or a response. *)
Statuses == {200, 404, 500, 503}

RespHeaders ==
    { << << "content-type", << "application/json" >> >>,
         << "x-proxy-key", << "leak" >> >> >>,
      << << "content-type", << "text/event-stream" >> >> >>,
      << << "content-type", << "Text/Event-Stream" >> >> >>,
      << << "content-type", << "text/plain", ";", " ", "charset=utf-8" >> >> >>,
      << >> }

RespBody == << "body" >>

BigBody == << Block2k, Block2k, Block2k, Block2k, Block2k, InvalidByte >>

(* The bodies a client sends and a buffered response carries. *)
ReqBodies == { << >>, BigBody }

RespBodies == { << >>, RespBody, BigBody }

TransportErr == << "connect error" >>

NoClient == [status |-> None, chunks |-> << >>, closed |-> FALSE, error |-> FALSE,
             gone |-> FALSE]

NoHist == [dispatches |-> << >>, body_read_failed |-> FALSE]

NoEntry == [id |-> << 0 >>]

NoResp == [status |-> 0, headers |-> << >>, chunks |-> << >>, collected |-> << >>]

Init ==
    /\ config \in Configs
    /\ logs = << >>
    /\ stats = << >>
    /\ Started
    /\ pc = [r \in Reqs |-> "idle"]
    /\ req = [r \in Reqs |-> [path |-> << >>, headers |-> << >>, body |-> << >>]]
    /\ snap = [r \in Reqs |-> None]
    /\ route = [r \in Reqs |-> << >>]
    /\ entry = [r \in Reqs |-> NoEntry]
    /\ up_idx = [r \in Reqs |-> 0]
    /\ attempt = [r \in Reqs |-> 0]
    /\ attempt_errors = [r \in Reqs |-> << >>]
    /\ resp = [r \in Reqs |-> NoResp]
    /\ client = [r \in Reqs |-> NoClient]
    /\ hist = [r \in Reqs |-> NoHist]
    /\ pure = << >>

----------------------------------------------------------------------------
(* proxy_handler *)

RequestId(r) == << r >>

(* The attempt id counts from zero. *)
AttemptId_zero_based(id, u, a) == id \o << u, a >>

AttemptId(id, u, a) == id \o << u + 1, a + 1 >>

AuthFailEntry(r, cfg, path) ==
    [id |-> RequestId(r), listen_port |-> cfg.listen_port, path |-> path,
     upstream_url |-> << >>, upstream_label |-> None, service_name |-> None,
     base_path |-> None, status |-> Some(401), error |-> Some(<< "unauthorized" >>),
     retry_action |-> None, request_headers |-> None, request_body |-> None,
     response_headers |-> None, response_body |-> None, is_streaming |-> FALSE]

FirstEntry(r, cfg, path, rt) ==
    [id |-> RequestId(r), listen_port |-> cfg.listen_port, path |-> path,
     upstream_url |-> rt.upstreams[1].upstream_url,
     upstream_label |-> rt.upstreams[1].upstream_label,
     service_name |-> Some(rt.service_name), base_path |-> Some(rt.service_base),
     status |-> None, error |-> None, retry_action |-> None,
     request_headers |-> None, request_body |-> None,
     response_headers |-> None, response_body |-> None, is_streaming |-> FALSE]

(* Requests are admitted in the order of their numbers: the number is only
   the name of the request's Uuid. *)
Arrives(r) ==
    /\ config.listen_port \in inner
    /\ pc[r] = "idle" /\ \A q \in Reqs : q < r => pc[q] # "idle"

AuthReject(r, path, headers) ==
    /\ Arrives(r)
    /\ ~check_auth(config, headers)
    /\ req' = [req EXCEPT ![r] = [path |-> path, headers |-> headers, body |-> << >>]]
    /\ snap' = [snap EXCEPT ![r] = Some(config)]
    /\ logs' = upsert_log(logs, AuthFailEntry(r, config, path))
    /\ client' = [client EXCEPT ![r].status = Some(401), ![r].closed = TRUE]
    /\ pc' = [pc EXCEPT ![r] = "done"]
    /\ UNCHANGED << appVars, config, stats, route, entry, up_idx, attempt, attempt_errors,
                    resp, hist, pure >>

RouteMiss(r, path, headers) ==
    /\ Arrives(r)
    /\ check_auth(config, headers)
    /\ resolve_route(config, path) = None
    /\ req' = [req EXCEPT ![r] = [path |-> path, headers |-> headers, body |-> << >>]]
    /\ snap' = [snap EXCEPT ![r] = Some(config)]
    /\ client' = [client EXCEPT ![r].status = Some(503), ![r].closed = TRUE]
    /\ pc' = [pc EXCEPT ![r] = "done"]
    /\ UNCHANGED << appVars, config, logs, stats, route, entry, up_idx, attempt,
                    attempt_errors, resp, hist, pure >>

Admit(r, path, headers) ==
    /\ Arrives(r)
    /\ check_auth(config, headers)
    /\ resolve_route(config, path) # None
    /\ req' = [req EXCEPT ![r] = [path |-> path, headers |-> headers, body |-> << >>]]
    /\ snap' = [snap EXCEPT ![r] = Some(config)]
    /\ route' = [route EXCEPT ![r] = Unwrap(resolve_route(config, path)).upstreams]
    /\ entry' = [entry EXCEPT ![r] =
                    FirstEntry(r, config, path, Unwrap(resolve_route(config, path)))]
    /\ pc' = [pc EXCEPT ![r] = "read_body"]
    /\ UNCHANGED << appVars, config, logs, stats, up_idx, attempt, attempt_errors, resp,
                    client, hist, pure >>

ReadBodyFail(r) ==
    /\ pc[r] = "read_body"
    /\ LET e == [entry[r] EXCEPT !.error = Some(<< "read request body failed" >>)]
       IN  /\ entry' = [entry EXCEPT ![r] = e]
           /\ logs' = upsert_log(logs, e)
    /\ client' = [client EXCEPT ![r].status = Some(400), ![r].closed = TRUE]
    /\ pc' = [pc EXCEPT ![r] = "done"]
    /\ UNCHANGED << appVars, config, stats, req, snap, route, up_idx, attempt,
                    attempt_errors, resp, hist, pure >>

ReadBodyOk(r, body_bytes) ==
    /\ pc[r] = "read_body"
    /\ req' = [req EXCEPT ![r].body = body_bytes]
    /\ entry' = [entry EXCEPT ![r].request_body = truncate_body(body_bytes, 8000)]
    /\ pc' = [pc EXCEPT ![r] = "dispatch"]
    /\ UNCHANGED << appVars, config, logs, stats, snap, route, up_idx, attempt,
                    attempt_errors, resp, client, hist, pure >>

allowed_retries(r) == Min(Unwrap(snap[r]).fallback_retries, MAX_FALLBACK_RETRIES)

retries_per_upstream(r) == SaturatingSub(allowed_retries(r), 1)

(* Fallback is allowed for every budget. *)
allow_fallback_always(r) == allowed_retries(r) >= 0

allow_fallback(r) == allowed_retries(r) >= 1

(* The upstream is looked up in the listener's config at each attempt. *)
Upstream_of_live_config(r) ==
    Unwrap(resolve_route(config, req[r].path)).upstreams[up_idx[r] + 1]

Upstream(r) == route[r][up_idx[r] + 1]

(* The request is sent without the in-flight entry being upserted. *)
Dispatch_without_upsert(r) ==
    /\ pc[r] = "dispatch"
    /\ LET prepared == prepare_upstream_request(req[r].headers, Upstream(r).api_key)
           e == [entry[r] EXCEPT
                   !.upstream_url = Upstream(r).upstream_url,
                   !.upstream_label = Upstream(r).upstream_label,
                   !.request_headers = Some(prepared.headers_str)]
       IN  /\ entry' = [entry EXCEPT ![r] = e]
           /\ hist' = [hist EXCEPT ![r].dispatches = Append(@,
                         [up_idx |-> up_idx[r], attempt |-> attempt[r],
                          upstream_id |-> Upstream(r).upstream_id,
                          url |-> Upstream(r).upstream_url,
                          headers |-> prepared.headers,
                          transport_error |-> FALSE, status |-> None,
                          calls |-> command.calls])]
    /\ pc' = [pc EXCEPT ![r] = "sent"]
    /\ UNCHANGED << appVars, config, logs, stats, req, snap, route, up_idx, attempt,
                    attempt_errors, resp, client, pure >>

(* The head of the inner loop: stamp the entry, build the request, upsert the
   in-flight entry, send. *)
Dispatch(r) ==
    /\ pc[r] = "dispatch"
    /\ LET prepared == prepare_upstream_request(req[r].headers, Upstream(r).api_key)
           e == [entry[r] EXCEPT
                   !.upstream_url = Upstream(r).upstream_url,
                   !.upstream_label = Upstream(r).upstream_label,
                   !.request_headers = Some(prepared.headers_str)]
       IN  /\ entry' = [entry EXCEPT ![r] = e]
           /\ logs' = upsert_log(logs, e)
           /\ hist' = [hist EXCEPT ![r].dispatches = Append(@,
                         [up_idx |-> up_idx[r], attempt |-> attempt[r],
                          upstream_id |-> Upstream(r).upstream_id,
                          url |-> Upstream(r).upstream_url,
                          headers |-> prepared.headers,
                          transport_error |-> FALSE, status |-> None,
                          calls |-> command.calls])]
    /\ pc' = [pc EXCEPT ![r] = "sent"]
    /\ UNCHANGED << appVars, config, stats, req, snap, route, up_idx, attempt,
                    attempt_errors, resp, client, pure >>

LastDispatch(r) == Len(hist[r].dispatches)

(* The failed attempt is recorded under the id of the main entry. *)
SubEntry_under_main_id(r, status, error, retry_action) ==
    [entry[r] EXCEPT
        !.status = Some(status),
        !.error = Some(error),
        !.retry_action = retry_action]

SubEntry(r, status, error, retry_action) ==
    [entry[r] EXCEPT
        !.id = AttemptId(entry[r].id, up_idx[r], attempt[r]),
        !.status = Some(status),
        !.error = Some(error),
        !.retry_action = retry_action]

(* Ok(resp) with a retryable status while an attempt remains on this upstream:
   the sub-log, the error count, and the next turn of the inner loop. *)
RespondRetry(r, status) ==
    /\ pc[r] = "sent"
    /\ should_retry_status(status) /\ attempt[r] < retries_per_upstream(r)
    /\ logs' = upsert_log(logs,
          SubEntry(r, status, << "upstream returned ", ToString(status), ", retried" >>,
                   Some("retry")))
    /\ stats' = update_stats(stats, Upstream(r).upstream_id, Upstream(r).upstream_label,
                             1, FALSE)
    /\ attempt_errors' = [attempt_errors EXCEPT ![r] =
                             Append(@, << "upstream returned ", ToString(status) >>)]
    /\ hist' = [hist EXCEPT ![r].dispatches[LastDispatch(r)].status = Some(status)]
    /\ attempt' = [attempt EXCEPT ![r] = @ + 1]
    /\ pc' = [pc EXCEPT ![r] = "dispatch"]
    /\ UNCHANGED << appVars, config, req, snap, route, entry, up_idx, resp, client, pure >>

(* The attempt index is looked at before the upstream index. *)
CommitRetryAction_attempt_first(r) ==
    IF attempt[r] > 0 THEN Some("retry")
    ELSE IF up_idx[r] > 0 THEN Some("fallback")
    ELSE entry[r].retry_action

CommitRetryAction(r) ==
    IF up_idx[r] > 0 THEN Some("fallback")
    ELSE IF attempt[r] > 0 THEN Some("retry")
    ELSE entry[r].retry_action

(* Ok(resp) otherwise: the response is committed and handle_upstream_response
   classifies it.  A streaming response is answered at once (build_response)
   and its body is left to the spawned task. *)
RespondCommit(r, status, headers) ==
    /\ pc[r] = "sent"
    /\ ~(should_retry_status(status) /\ attempt[r] < retries_per_upstream(r))
    /\ entry' = [entry EXCEPT ![r] =
                    [@ EXCEPT !.retry_action = CommitRetryAction(r),
                              !.status = Some(status),
                              !.response_headers = Some(format_headers(headers)),
                              !.is_streaming = IsStreamingContentType(headers)]]
    /\ resp' = [resp EXCEPT ![r] =
                    [status |-> status, headers |-> headers, chunks |-> << >>,
                     collected |-> << >>]]
    /\ hist' = [hist EXCEPT ![r].dispatches[LastDispatch(r)].status = Some(status)]
    /\ IF IsStreamingContentType(headers)
       THEN /\ client' = [client EXCEPT ![r].status = Some(status)]
            /\ pc' = [pc EXCEPT ![r] = "streaming"]
       ELSE /\ client' = client
            /\ pc' = [pc EXCEPT ![r] = "read_resp"]
    /\ UNCHANGED << appVars, config, logs, stats, req, snap, route, up_idx, attempt,
                    attempt_errors, pure >>

(* One attempt more than the budget is granted. *)
has_retry_left_inclusive(r) == attempt[r] <= retries_per_upstream(r)

has_retry_left(r) == attempt[r] < retries_per_upstream(r)

(* The position of the upstream in the list is not looked at. *)
has_next_upstream_unchecked(r) == allow_fallback(r)

has_next_upstream(r) == allow_fallback(r) /\ up_idx[r] + 1 < Len(route[r])

TransportErrorText(r) ==
    IF has_retry_left(r) THEN TransportErr \o << ", retried" >>
    ELSE IF has_next_upstream(r) THEN TransportErr \o << ", switched upstream" >>
    ELSE TransportErr

(* The next upstream is preferred to another attempt on this one. *)
TransportRetryAction_fallback_first(r) ==
    IF has_next_upstream(r) THEN Some("fallback")
    ELSE IF has_retry_left(r) THEN Some("retry")
    ELSE None

TransportRetryAction(r) ==
    IF has_retry_left(r) THEN Some("retry")
    ELSE IF has_next_upstream(r) THEN Some("fallback")
    ELSE None

(* Only the last attempt's error is reported. *)
ExhaustedEntry_last_error(r) ==
    [entry[r] EXCEPT
        !.error = Some(<< "upstream request failed: ", TransportErr >>),
        !.status = Some(502)]

ExhaustedEntry(r) ==
    [entry[r] EXCEPT
        !.error = Some(<< "upstream request failed: " >>
                       \o Append(attempt_errors[r], TransportErr)),
        !.status = Some(502)]

(* Err(err): the error count and the sub-log, then the same upstream again,
   the next upstream, or the end of the request with 502. *)
TransportError(r) ==
    /\ pc[r] = "sent"
    /\ stats' = update_stats(stats, Upstream(r).upstream_id, Upstream(r).upstream_label,
                             1, FALSE)
    /\ attempt_errors' = [attempt_errors EXCEPT ![r] = Append(@, TransportErr)]
    /\ hist' = [hist EXCEPT ![r].dispatches[LastDispatch(r)].transport_error = TRUE]
    /\ LET failed_entry == SubEntry(r, 502, TransportErrorText(r), TransportRetryAction(r))
       IN  IF has_retry_left(r)
           THEN /\ logs' = upsert_log(logs, failed_entry)
                /\ attempt' = [attempt EXCEPT ![r] = @ + 1]
                /\ pc' = [pc EXCEPT ![r] = "dispatch"]
                /\ UNCHANGED << up_idx, entry, client >>
           ELSE IF has_next_upstream(r)
           THEN /\ logs' = upsert_log(logs, failed_entry)
                /\ up_idx' = [up_idx EXCEPT ![r] = @ + 1]
                /\ attempt' = [attempt EXCEPT ![r] = 0]
                /\ pc' = [pc EXCEPT ![r] = "dispatch"]
                /\ UNCHANGED << entry, client >>
           ELSE /\ logs' = upsert_log(upsert_log(logs, failed_entry), ExhaustedEntry(r))
                /\ entry' = [entry EXCEPT ![r] = ExhaustedEntry(r)]
                /\ client' = [client EXCEPT ![r].status = Some(502), ![r].closed = TRUE]
                /\ pc' = [pc EXCEPT ![r] = "done"]
                /\ UNCHANGED << up_idx, attempt >>
    /\ UNCHANGED << appVars, config, req, snap, route, resp, pure >>

(* handle_regular_body *)
RegularBodyFail(r) ==
    /\ pc[r] = "read_resp"
    /\ LET e == [entry[r] EXCEPT !.error = Some(<< "read upstream response failed" >>)]
       IN  /\ entry' = [entry EXCEPT ![r] = e]
           /\ logs' = upsert_log(logs, e)
    /\ hist' = [hist EXCEPT ![r].body_read_failed = TRUE]
    /\ client' = [client EXCEPT ![r].status = Some(502), ![r].closed = TRUE]
    /\ pc' = [pc EXCEPT ![r] = "done"]
    /\ UNCHANGED << appVars, config, stats, req, snap, route, up_idx, attempt,
                    attempt_errors, resp, pure >>

RegularBodyOk(r, body_bytes) ==
    /\ pc[r] = "read_resp"
    /\ LET status == resp[r].status
           e == [entry[r] EXCEPT
                   !.response_body = truncate_body(body_bytes, 8000),
                   !.error = IF IsErrorStatus(status)
                             THEN Some(<< "upstream returned ", ToString(status), ": " >>
                                       \o TakeChars(from_utf8_lossy(body_bytes), 2000))
                             ELSE @]
       IN  /\ entry' = [entry EXCEPT ![r] = e]
           /\ logs' = upsert_log(logs, e)
           /\ stats' = update_stats(stats, Upstream(r).upstream_id,
                                    Upstream(r).upstream_label, 1, ~IsErrorStatus(status))
           /\ client' = [client EXCEPT ![r].status = Some(status),
                                       ![r].chunks = << body_bytes >>,
                                       ![r].closed = TRUE]
    /\ pc' = [pc EXCEPT ![r] = "done"]
    /\ UNCHANGED << appVars, config, req, snap, route, up_idx, attempt, attempt_errors,
                    resp, hist, pure >>

(* handle_streaming_body: the spawned task *)
Chunk(n) == << "chunk", ToString(n) >>

(* What the upstream's n-th chunk can be. *)
Chunks(n) == { Chunk(n), << InvalidByte, Block80k >> }

(* The end of the task: the captured buffer goes to the entry, the entry is
   upserted and the attempt is counted. *)
FinishStream(r, collected) ==
    LET status == resp[r].status
        final_entry == [entry[r] EXCEPT
            !.response_body = IF collected = << >>
                              THEN Some(<< "[stream]" >>)
                              ELSE truncate_body(collected, 64000)]
    IN  /\ entry' = [entry EXCEPT ![r] = final_entry]
        /\ logs' = upsert_log(logs, final_entry)
        /\ stats' = update_stats(stats, Upstream(r).upstream_id,
                                 Upstream(r).upstream_label, 1, ~IsErrorStatus(status))
        /\ pc' = [pc EXCEPT ![r] = "done"]

(* The client goes away while the response is streamed: the receiver of the
   channel is dropped. *)
ClientDisconnects(r) ==
    /\ pc[r] = "streaming"
    /\ ~client[r].gone
    /\ client' = [client EXCEPT ![r].gone = TRUE]
    /\ UNCHANGED << appVars, config, logs, stats, pc, req, snap, route, entry, up_idx,
                    attempt, attempt_errors, resp, hist, pure >>

(* The chunk is sent on and not captured. *)
StreamChunk_not_captured(r, bytes) ==
    /\ pc[r] = "streaming"
    /\ ~client[r].gone
    /\ Len(resp[r].chunks) < MaxChunks
    /\ resp' = [resp EXCEPT ![r].chunks = Append(@, bytes)]
    /\ client' = [client EXCEPT ![r].chunks = Append(@, bytes)]
    /\ UNCHANGED << appVars, config, logs, stats, pc, req, snap, route, entry, up_idx,
                    attempt, attempt_errors, hist, pure >>

(* Some(Ok(bytes)): the chunk is captured and sent on; the loop goes on. *)
StreamChunk(r, bytes) ==
    /\ pc[r] = "streaming"
    /\ ~client[r].gone
    /\ Len(resp[r].chunks) < MaxChunks
    /\ resp' = [resp EXCEPT ![r].chunks = Append(@, bytes), ![r].collected = @ \o bytes]
    /\ client' = [client EXCEPT ![r].chunks = Append(@, bytes)]
    /\ UNCHANGED << appVars, config, logs, stats, pc, req, snap, route, entry, up_idx,
                    attempt, attempt_errors, hist, pure >>

(* Some(Ok(bytes)) when the receiver is gone: the chunk is captured, the send
   fails and the loop is left. *)
StreamChunkUnsent(r, bytes) ==
    /\ pc[r] = "streaming"
    /\ client[r].gone
    /\ Len(resp[r].chunks) < MaxChunks
    /\ resp' = [resp EXCEPT ![r].chunks = Append(@, bytes), ![r].collected = @ \o bytes]
    /\ FinishStream(r, resp[r].collected \o bytes)
    /\ UNCHANGED << appVars, config, req, snap, route, up_idx, attempt, attempt_errors,
                    client, hist, pure >>

(* None: the upstream closed the stream. *)
StreamEnd(r) ==
    /\ pc[r] = "streaming"
    /\ FinishStream(r, resp[r].collected)
    /\ client' = [client EXCEPT ![r].closed = ~client[r].gone]
    /\ UNCHANGED << appVars, config, req, snap, route, up_idx, attempt, attempt_errors,
                    resp, hist, pure >>

(* Some(Err(e)): the error is sent on and the loop is left. *)
StreamFails(r) ==
    /\ pc[r] = "streaming"
    /\ FinishStream(r, resp[r].collected)
    /\ client' = [client EXCEPT ![r].error = ~client[r].gone,
                                ![r].closed = ~client[r].gone]
    /\ UNCHANGED << appVars, config, req, snap, route, up_idx, attempt, attempt_errors,
                    resp, hist, pure >>

Next ==
    \/ \E r \in Reqs, path \in ReqPaths, headers \in ReqHeaders :
          \/ AuthReject(r, path, headers)
          \/ RouteMiss(r, path, headers)
          \/ Admit(r, path, headers)
    \/ \E r \in Reqs :
          \/ ReadBodyFail(r)
          \/ \E body_bytes \in ReqBodies : ReadBodyOk(r, body_bytes)
          \/ Dispatch(r)
          \/ TransportError(r)
          \/ RegularBodyFail(r)
          \/ \E body_bytes \in RespBodies : RegularBodyOk(r, body_bytes)
          \/ ClientDisconnects(r)
          \/ \E bytes \in Chunks(Len(resp[r].chunks) + 1) :
                \/ StreamChunk(r, bytes)
                \/ StreamChunkUnsent(r, bytes)
          \/ StreamEnd(r)
          \/ StreamFails(r)
    \/ \E r \in Reqs, status \in Statuses :
          \/ RespondRetry(r, status)
          \/ \E headers \in RespHeaders : RespondCommit(r, status, headers)

Spec == Init /\ [][Next]_vars

----------------------------------------------------------------------------
(* The log ring on its own: upserts arriving in any order from any number of
   requests, on a ring that earlier requests have filled. *)

RequestsIdle ==
    /\ pc = [r \in Reqs |-> "idle"]
    /\ req = [r \in Reqs |-> [path |-> << >>, headers |-> << >>, body |-> << >>]]
    /\ snap = [r \in Reqs |-> None]
    /\ route = [r \in Reqs |-> << >>]
    /\ entry = [r \in Reqs |-> NoEntry]
    /\ up_idx = [r \in Reqs |-> 0]
    /\ attempt = [r \in Reqs |-> 0]
    /\ attempt_errors = [r \in Reqs |-> << >>]
    /\ resp = [r \in Reqs |-> NoResp]
    /\ client = [r \in Reqs |-> NoClient]
    /\ hist = [r \in Reqs |-> NoHist]

RingEntry(id, status) ==
    [id |-> id, listen_port |-> 8080, path |-> << "/", "b" >>,
     upstream_url |-> << "http://c" >>, upstream_label |-> None,
     service_name |-> Some(<< "one" >>), base_path |-> Some(<< "/", "b" >>),
     status |-> status, error |-> None, retry_action |-> None,
     request_headers |-> None, request_body |-> None,
     response_headers |-> None, response_body |-> None, is_streaming |-> FALSE]

(* The ring after n requests, each answered 200 on its first attempt. *)
FilledRing(n) == [i \in 1..n |-> RingEntry(<< i >>, Some(200))]

RingIds ==
    { << 1 >>, << MAX_LOGS >>, << MAX_LOGS + 1 >>, << MAX_LOGS + 2 >>,
      << MAX_LOGS + 1, 1, 1 >> }

RingStatuses == { None, Some(502) }

RingInit ==
    /\ config \in {c \in Configs : c.fallback_retries = 0 /\ c.global_key = None}
    /\ logs \in {FilledRing(n) : n \in {0, MAX_LOGS - 2, MAX_LOGS - 1, MAX_LOGS}}
    /\ stats = << >>
    /\ Started
    /\ RequestsIdle
    /\ pure = [steps |-> 0, last |-> None]

RingUpsert(e) ==
    /\ pure.steps < RingSteps
    /\ logs' = upsert_log(logs, e)
    /\ pure' = [steps |-> pure.steps + 1, last |-> Some(e)]
    /\ UNCHANGED << appVars, config, stats, reqVars >>

clear_logs ==
    /\ pure.steps < RingSteps
    /\ logs # << >>
    /\ logs' = << >>
    /\ pure' = [steps |-> pure.steps + 1, last |-> None]
    /\ UNCHANGED << appVars, config, stats, reqVars >>

RingNext ==
    \/ \E id \in RingIds, status \in RingStatuses : RingUpsert(RingEntry(id, status))
    \/ clear_logs

SpecRing == RingInit /\ [][RingNext]_vars

----------------------------------------------------------------------------
(* prepare_upstream_request on its own, for every inbound header set *)

MaxHdrs == 2

HeaderNames ==
    {"host", "content-length", "authorization", "x-goog-api-key", "x-proxy-key",
     "x-custom"}

HeaderValues == { << "ck" >>, << "Bearer", " ", "ck" >> }

HeaderPairs == {<< n, v >> : n \in HeaderNames, v \in HeaderValues}

HeaderMaps == UNION {[1..k -> HeaderPairs] : k \in 0..MaxHdrs}

HeadersInit ==
    /\ config \in {c \in Configs : c.fallback_retries = 0 /\ c.global_key = None}
    /\ logs = << >>
    /\ stats = << >>
    /\ Started
    /\ RequestsIdle
    /\ \E headers \in HeaderMaps, api_key \in {None, Some(<< "sk" >>)} :
          pure = [headers |-> headers, api_key |-> api_key, prepared |-> None]

PrepareHeaders ==
    /\ pure.prepared = None
    /\ pure' = [pure EXCEPT
                  !.prepared = Some(prepare_upstream_request(pure.headers, pure.api_key))]
    /\ UNCHANGED << appVars, config, logs, stats, reqVars >>

SpecHeaders == HeadersInit /\ [][PrepareHeaders]_vars

----------------------------------------------------------------------------
(* The router on its own, for every list of services and every path *)

MaxSvcs == 2

BasePaths == { << >>, << "/" >>, << "/", "a" >>, << "/", "a", "/", "b" >> }

RoutePaths ==
    { << "/", "a", "/", "b", "/", "c" >>, << "/", "a", "b" >>, << "/", "a" >>,
      << "/", "x" >> }

ServiceChoices ==
    {[name |-> << "svc" >>, base_path |-> b, enabled |-> e, upstreams |-> << UpC >>] :
        b \in BasePaths, e \in BOOLEAN}

(* Each service of a list gets its position as id. *)
NumberedServices(list) ==
    [i \in 1..Len(list) |->
        [id |-> i, name |-> list[i].name, base_path |-> list[i].base_path,
         enabled |-> list[i].enabled, upstreams |-> list[i].upstreams]]

ServiceLists ==
    {NumberedServices(list) : list \in UNION {[1..k -> ServiceChoices] : k \in 1..MaxSvcs}}

RouteInit ==
    /\ config \in {[listen_port |-> 8080, global_key |-> None, proxy_url |-> None,
                    fallback_retries |-> 0, services |-> list] : list \in ServiceLists}
    /\ logs = << >>
    /\ stats = << >>
    /\ Started
    /\ RequestsIdle
    /\ \E path \in RoutePaths : pure = [path |-> path, routed |-> None]

(* resolve_route up to the trimmed path: the service and what is left of
   the path. *)
SelectRoute ==
    /\ pure.routed = None
    /\ LET service == select_service(config, pure.path)
       IN  pure' = [pure EXCEPT !.routed = Some(
              [service |-> service,
               trimmed_path |-> IF service = None THEN << >>
                                ELSE strip_base_path(pure.path, Unwrap(service).base_path)])]
    /\ UNCHANGED << appVars, config, logs, stats, reqVars >>

SpecRoute == RouteInit /\ [][SelectRoute]_vars

----------------------------------------------------------------------------
(* The commands: start_proxy, stop_proxy, reload_proxy, save_settings.  One
   listener port is followed, so config is the cell of that listener. *)

MaxCommands == 3

(* Configurations as the front end hands them in, before normalization. *)
RawUpA == [id |-> "A", label |-> Some(<< " ", "primary", " " >>),
           upstream_base |-> << " ", "http://a", "/", "/", " " >>,
           api_key |-> Some(<< "sk" >>), priority |-> 5, enabled |-> TRUE]

RawUpB == [id |-> "B", label |-> Some(<< " " >>), upstream_base |-> << "http://b" >>,
           api_key |-> Some(<< " " >>), priority |-> 1, enabled |-> TRUE]

RawUpE == [id |-> "E", label |-> None, upstream_base |-> << " ", "/" >>,
           api_key |-> None, priority |-> 0, enabled |-> TRUE]

RawServiceA == [id |-> "s1", name |-> << " ", "two" >>, base_path |-> << "a", "/" >>,
                enabled |-> TRUE, upstreams |-> << RawUpA, RawUpE, RawUpB >>]

RawServiceB == [id |-> "s2", name |-> << "one" >>,
                base_path |-> << " ", "/", "b", "/", "/" >>,
                enabled |-> TRUE, upstreams |-> << RawUpB >>]

RawServiceE == [id |-> "s3", name |-> << "none" >>, base_path |-> << " " >>,
                enabled |-> TRUE, upstreams |-> << RawUpE >>]

GoodProxyUrl == << "http://proxy" >>

RawConfig(port, key, proxy, retries, services) ==
    [listen_port |-> port, global_key |-> key, proxy_url |-> proxy,
     fallback_retries |-> retries, services |-> services]

RawConfigs ==
    { RawConfig(8080, Some(GlobalKey), None, MAX_FALLBACK_RETRIES + 1,
                << RawServiceA, RawServiceE >>),
      RawConfig(8080, Some(<< " " >>), Some(<< " " >>), 1, << RawServiceB >>),
      RawConfig(8080, None, Some(GoodProxyUrl), 0, << RawServiceE, RawServiceA >>),
      RawConfig(0, None, None, 1, << RawServiceA >>),
      RawConfig(8080, None, None, 1, << >>),
      RawConfig(8080, None, None, 1, << RawServiceE >>),
      RawConfig(8080, None, Some(BadProxyUrl), 1, << RawServiceA >>) }

(* reload_proxy is also tried with another port than the stored one. *)
ReloadConfigs ==
    RawConfigs \cup {RawConfig(9090, None, None, 1, << RawServiceA >>)}

LifecyclePaths == { << "/", "a", "/", "x" >>, << "/", "b" >> }

LifecycleHeaders == { << >>, << << "authorization", << "Bearer", " ", "pk" >> >> >> }

(* No listener has been started: its cell is not allocated yet, and nothing
   reads it while its port is not in inner. *)
NoListener == RawConfig(0, None, None, 0, << >>)

(* ProxyState::new *)
LifecycleInit ==
    /\ config = NoListener
    /\ logs = << >>
    /\ stats = << >>
    /\ RequestsIdle
    /\ state_config = None
    /\ http_client = build_client(None)
    /\ inner = {}
    /\ command = NoCommand
    /\ pure = << >>

Reply(cmd, error) ==
    [calls |-> command.calls + 1, cmd |-> cmd, error |-> error, port |-> None]

(* The rows without a status are marked whatever their port is. *)
finalize_inflight_every_port(ring, listen_port) ==
    [i \in 1..Len(ring) |->
        IF ring[i].status = None
        THEN [ring[i] EXCEPT !.status = Some(499),
                             !.error = Some(<< "proxy stopped" >>)]
        ELSE ring[i]]

(* finalize_inflight: the rows of the port (of every port for None) that have
   no status are marked 499. *)
finalize_inflight(ring, listen_port) ==
    [i \in 1..Len(ring) |->
        IF (listen_port = None \/ Unwrap(listen_port) = ring[i].listen_port)
           /\ ring[i].status = None
        THEN [ring[i] EXCEPT !.status = Some(499),
                             !.error = Some(<< "proxy stopped" >>)]
        ELSE ring[i]]

(* join.await of a listener returns when its connections are closed: every
   handler has returned and every streamed response has ended or has lost its
   client.  The task that handle_streaming_body spawns is not awaited. *)
HandlersReturned ==
    \A r \in Reqs :
        \/ pc[r] \in {"idle", "done"}
        \/ pc[r] = "streaming" /\ client[r].gone

(* The checks of start_proxy before it stores anything, in their order. *)
StartError(cfg) ==
    IF cfg.listen_port \notin 1..65535 THEN Some("listen_port")
    ELSE IF cfg.services = << >> THEN Some("no_services")
    ELSE IF NormalizeServices(cfg.services) = << >> THEN Some("no_valid_services")
    ELSE IF BuildClientFails(FilterNonBlank(cfg.proxy_url)) THEN Some("proxy_url")
    ELSE None

(* start_proxy: the checks, then the client and the snapshot are stored, a
   listener already on the port is shut down and awaited and its in-flight
   rows are finalized, and a new listener with a cell of its own is bound and
   registered. *)
StartProxy(cfg) ==
    /\ command.calls < MaxCommands
    /\ IF StartError(cfg) # None
       THEN /\ command' = Reply("start_proxy", StartError(cfg))
            /\ UNCHANGED << config, logs, stats, reqVars, state_config, http_client,
                            inner, pure >>
       ELSE LET new == NormalizeConfig(cfg)
            IN  /\ new.listen_port \in inner => HandlersReturned
                /\ http_client' = build_client(new.proxy_url)
                /\ state_config' = Some(new)
                /\ logs' = IF new.listen_port \in inner
                           THEN finalize_inflight(logs, Some(new.listen_port))
                           ELSE logs
                /\ config' = new
                /\ inner' = inner \cup {new.listen_port}
                /\ command' = Reply("start_proxy", None)
                /\ UNCHANGED << stats, reqVars, pure >>

(* start_proxy when TcpListener::bind fails: the client and the snapshot are
   stored and the old listener is gone by then. *)
StartProxyBindFails(cfg) ==
    /\ command.calls < MaxCommands
    /\ StartError(cfg) = None
    /\ LET new == NormalizeConfig(cfg)
       IN  /\ new.listen_port \in inner => HandlersReturned
           /\ http_client' = build_client(new.proxy_url)
           /\ state_config' = Some(new)
           /\ logs' = IF new.listen_port \in inner
                      THEN finalize_inflight(logs, Some(new.listen_port))
                      ELSE logs
           /\ inner' = inner \ {new.listen_port}
    /\ command' = Reply("start_proxy", Some("bind"))
    /\ UNCHANGED << config, stats, reqVars, pure >>

stop_proxy(listen_port) ==
    /\ command.calls < MaxCommands
    /\ IF IsSome(listen_port)
       THEN IF Unwrap(listen_port) \in inner
            THEN /\ HandlersReturned
                 /\ inner' = inner \ {Unwrap(listen_port)}
                 /\ logs' = finalize_inflight(logs, listen_port)
            ELSE UNCHANGED << inner, logs >>
       ELSE /\ inner # {} => HandlersReturned
            /\ inner' = {}
            /\ logs' = finalize_inflight(logs, None)
    /\ command' = [Reply("stop_proxy", None) EXCEPT !.port = listen_port]
    /\ UNCHANGED << config, stats, reqVars, state_config, http_client, pure >>

(* The checks of reload_proxy before it stores anything, in their order. *)
ReloadError(cfg) ==
    IF state_config = None THEN Some("not_started")
    ELSE IF Unwrap(state_config).listen_port # cfg.listen_port THEN Some("port_changed")
    ELSE IF cfg.services = << >> THEN Some("no_services")
    ELSE IF NormalizeServices(cfg.services) = << >> THEN Some("no_valid_services")
    ELSE IF BuildClientFails(FilterNonBlank(cfg.proxy_url)) THEN Some("proxy_url")
    ELSE None

(* The snapshot is stored before the checks are made. *)
reload_proxy_stores_first(cfg) ==
    /\ command.calls < MaxCommands
    /\ state_config' = Some(NormalizeConfig(cfg))
    /\ IF ReloadError(cfg) # None
       THEN /\ command' = Reply("reload_proxy", ReloadError(cfg))
            /\ UNCHANGED http_client
       ELSE /\ http_client' = build_client(FilterNonBlank(cfg.proxy_url))
            /\ command' = Reply("reload_proxy", None)
    /\ UNCHANGED << config, logs, stats, reqVars, inner, pure >>

(* reload_proxy stores the client and the snapshot of ProxyState; the cell of
   the running listener is not written. *)
reload_proxy(cfg) ==
    /\ command.calls < MaxCommands
    /\ IF ReloadError(cfg) # None
       THEN /\ command' = Reply("reload_proxy", ReloadError(cfg))
            /\ UNCHANGED << state_config, http_client >>
       ELSE /\ http_client' = build_client(FilterNonBlank(cfg.proxy_url))
            /\ state_config' = Some(NormalizeConfig(cfg))
            /\ command' = Reply("reload_proxy", None)
    /\ UNCHANGED << config, logs, stats, reqVars, inner, pure >>

(* save_settings stores the config as given, fallback_retries clamped, in the
   cell of the listener on its port and in the snapshot. *)
save_settings(cfg) ==
    /\ command.calls < MaxCommands
    /\ LET saved == [cfg EXCEPT !.fallback_retries = Min(@, MAX_FALLBACK_RETRIES)]
       IN  /\ config' = IF saved.listen_port \in inner THEN saved ELSE config
           /\ state_config' = Some(saved)
    /\ command' = Reply("save_settings", None)
    /\ UNCHANGED << logs, stats, reqVars, http_client, inner, pure >>

(* save_settings when save_config fails: it returns before storing. *)
SaveSettingsFails(cfg) ==
    /\ command.calls < MaxCommands
    /\ command' = Reply("save_settings", Some("persist"))
    /\ UNCHANGED << config, logs, stats, reqVars, state_config, http_client, inner,
                    pure >>

SaveConfigs ==
    { RawConfig(8080, Some(<< " " >>), Some(<< " " >>), 1, << RawServiceB >>),
      RawConfig(9090, None, None, 1, << RawServiceA >>) }

LifecycleNext ==
    \/ \E cfg \in RawConfigs : StartProxy(cfg) \/ StartProxyBindFails(cfg)
    \/ \E cfg \in ReloadConfigs : reload_proxy(cfg)
    \/ \E cfg \in SaveConfigs : save_settings(cfg) \/ SaveSettingsFails(cfg)
    \/ \E listen_port \in {None} \cup {Some(p) : p \in inner} : stop_proxy(listen_port)
    \/ \E r \in Reqs, path \in LifecyclePaths, headers \in LifecycleHeaders :
          \/ AuthReject(r, path, headers)
          \/ RouteMiss(r, path, headers)
          \/ Admit(r, path, headers)

SpecLifecycle == LifecycleInit /\ [][LifecycleNext]_vars

----------------------------------------------------------------------------
(* helpers.rs normalize_base_path and build_upstream_url on their own, on
   every string of at most MaxStrLen characters over a space, a slash and a
   letter *)

MaxStrLen == 4

StringChars == {" ", "/", "a"}

Strings == UNION {[1..k -> StringChars] : k \in 0..MaxStrLen}

NormalizeInit ==
    /\ config \in {c \in Configs : c.fallback_retries = 0 /\ c.global_key = None}
    /\ logs = << >>
    /\ stats = << >>
    /\ Started
    /\ RequestsIdle
    /\ \E path \in Strings : pure = [path |-> path, once |-> None, twice |-> None]

NormalizeOnce ==
    /\ pure.once = None
    /\ pure' = [pure EXCEPT !.once = Some(normalize_base_path(pure.path))]
    /\ UNCHANGED << appVars, config, logs, stats, reqVars >>

NormalizeAgain ==
    /\ pure.once # None /\ pure.twice = None
    /\ pure' = [pure EXCEPT !.twice = Some(normalize_base_path(Unwrap(pure.once)))]
    /\ UNCHANGED << appVars, config, logs, stats, reqVars >>

SpecNormalize == NormalizeInit /\ [][NormalizeOnce \/ NormalizeAgain]_vars

UrlInit ==
    /\ config \in {c \in Configs : c.fallback_retries = 0 /\ c.global_key = None}
    /\ logs = << >>
    /\ stats = << >>
    /\ Started
    /\ RequestsIdle
    /\ \E base \in Strings : pure = [base |-> base, path |-> << "/" >>, url |-> None]

BuildUrl ==
    /\ pure.url = None
    /\ pure' = [pure EXCEPT !.url = Some(build_upstream_url(pure.base, pure.path))]
    /\ UNCHANGED << appVars, config, logs, stats, reqVars >>

SpecUrl == UrlInit /\ [][BuildUrl]_vars

----------------------------------------------------------------------------
(* get_logs on rings that two listeners have filled *)

MaxLimit == 3

(* The first max entries are returned. *)
get_logs_first_entries(ring, limit, listen_port) ==
    LET max == Min(IF limit = None THEN MAX_LOGS ELSE Unwrap(limit), MAX_LOGS)
        PortMatches(e) == listen_port = None \/ Unwrap(listen_port) = e.listen_port
        filtered == SelectSeq(ring, PortMatches)
    IN  SubSeq(filtered, 1, Min(max, Len(filtered)))

get_logs(ring, limit, listen_port) ==
    LET max == Min(IF limit = None THEN MAX_LOGS ELSE Unwrap(limit), MAX_LOGS)
        PortMatches(e) == listen_port = None \/ Unwrap(listen_port) = e.listen_port
        filtered == SelectSeq(ring, PortMatches)
        len == Len(filtered)
        start == SaturatingSub(len, max)
    IN  SubSeq(filtered, start + 1, len)

(* A ring that the listeners on two ports have filled in turn. *)
SharedRing(n) ==
    [i \in 1..n |->
        [RingEntry(<< i >>, Some(200)) EXCEPT !.listen_port = IF i % 2 = 0 THEN 8080 ELSE 9090]]

Limits ==
    {None} \cup {Some(n) : n \in 0..MaxLimit}
           \cup {Some(MAX_LOGS - 1), Some(MAX_LOGS), Some(MAX_LOGS + 1)}

QueryPorts == {None, Some(8080), Some(9090), Some(7070)}

LogsInit ==
    /\ config \in {c \in Configs : c.fallback_retries = 0 /\ c.global_key = None}
    /\ logs \in {SharedRing(n) : n \in {0, 1, 2, MaxLimit + 2, MAX_LOGS - 1, MAX_LOGS}}
    /\ stats = << >>
    /\ Started
    /\ RequestsIdle
    /\ pure = [limit |-> None, listen_port |-> None, result |-> None]

GetLogs(limit, listen_port) ==
    /\ pure' = [limit |-> limit, listen_port |-> listen_port,
                result |-> Some(get_logs(logs, limit, listen_port))]
    /\ UNCHANGED << appVars, config, logs, stats, reqVars >>

SpecLogs ==
    LogsInit /\ [][\E limit \in Limits, listen_port \in QueryPorts :
                      GetLogs(limit, listen_port)]_vars

----------------------------------------------------------------------------
(* stop_proxy on a ring that holds finished and unfinished rows of the
   listeners on two ports *)

MaxRows == 2

StopRow(i, port, status, duration_ms) ==
    [id |-> << i >>, listen_port |-> port, path |-> << "/", "b" >>,
     upstream_url |-> << "http://c" >>, upstream_label |-> None,
     service_name |-> Some(<< "one" >>), base_path |-> Some(<< "/", "b" >>),
     status |-> status, duration_ms |-> duration_ms,
     error |-> IF status = Some(500) THEN Some(<< "upstream returned ", "500" >>) ELSE None,
     retry_action |-> None, request_headers |-> None, request_body |-> None,
     response_headers |-> None, response_body |-> None, is_streaming |-> FALSE]

StopRows(i) ==
    {StopRow(i, port, status, duration_ms) :
        port \in {8080, 9090}, status \in {None, Some(500)}, duration_ms \in {0, 7}}

StopRings ==
    UNION {{ring \in [1..n -> UNION {StopRows(i) : i \in 1..n}] :
               \A i \in 1..n : ring[i] \in StopRows(i)} : n \in 0..MaxRows}

StopInit ==
    /\ config \in {c \in Configs : c.fallback_retries = 1 /\ c.global_key = None}
    /\ logs \in StopRings
    /\ stats = << >>
    /\ RequestsIdle
    /\ state_config = Some(config)
    /\ http_client = build_client(config.proxy_url)
    /\ inner \in {{8080}, {8080, 9090}}
    /\ command = NoCommand
    /\ pure = << >>

SpecStop ==
    StopInit /\ [][\E listen_port \in {None, Some(8080), Some(9090)} :
                      stop_proxy(listen_port)]_vars

----------------------------------------------------------------------------
(* The attempt engine on its own: requests without credentials to a listener
   without a global key, every kind of upstream status, budgets up to
   MaxRetries, and upstream streams that end without a chunk *)

(* http::StatusCode holds any code from 100 to 999. *)
EngineStatuses == {200, 404, 408, 429, 500, 503, 600}

EnginePaths == { << "/", "a", "/", "x" >>, << "/", "b" >> }

EngineRespHeaders ==
    { << << "content-type", << "application/json" >> >> >>,
      << << "content-type", << "text/event-stream" >> >> >> }

EngineInit ==
    /\ config \in {[listen_port |-> 8080, global_key |-> None, proxy_url |-> None,
                     fallback_retries |-> n, services |-> Services] :
                        n \in 0..MaxRetries}
    /\ logs = << >>
    /\ stats = << >>
    /\ Started
    /\ RequestsIdle
    /\ pure = << >>

EngineNext ==
    \/ \E r \in Reqs, path \in EnginePaths : Admit(r, path, << >>)
    \/ \E r \in Reqs :
          \/ ReadBodyFail(r)
          \/ ReadBodyOk(r, << >>)
          \/ Dispatch(r)
          \/ TransportError(r)
          \/ RegularBodyFail(r)
          \/ RegularBodyOk(r, RespBody)
          \/ StreamEnd(r)
    \/ \E r \in Reqs, status \in EngineStatuses :
          \/ RespondRetry(r, status)
          \/ \E headers \in EngineRespHeaders : RespondCommit(r, status, headers)

SpecEngine == EngineInit /\ [][EngineNext]_vars

----------------------------------------------------------------------------
(* proxy_handler up to the attempt engine: the auth gate, the route lookup
   and the reading of the request body, for every config, path and header
   map of the model. *)
AdmissionNext ==
    \/ \E r \in Reqs, path \in ReqPaths, headers \in ReqHeaders :
          \/ AuthReject(r, path, headers)
          \/ RouteMiss(r, path, headers)
          \/ Admit(r, path, headers)
    \/ \E r \in Reqs :
          \/ ReadBodyFail(r)
          \/ \E body_bytes \in ReqBodies : ReadBodyOk(r, body_bytes)

SpecAdmission == Init /\ [][AdmissionNext]_vars

----------------------------------------------------------------------------
(* handle_streaming_body behind the attempt engine: every committed response
   is a streamed one, and the task reads chunks until the upstream ends or
   fails or the client is gone. *)
StreamStatuses == {200, 503}

StreamRespHeaders == {headers \in RespHeaders : IsStreamingContentType(headers)}

StreamNext ==
    \/ \E r \in Reqs, path \in EnginePaths : Admit(r, path, << >>)
    \/ \E r \in Reqs :
          \/ ReadBodyOk(r, << >>)
          \/ Dispatch(r)
          \/ TransportError(r)
          \/ ClientDisconnects(r)
          \/ \E bytes \in Chunks(Len(resp[r].chunks) + 1) :
                \/ StreamChunk(r, bytes)
                \/ StreamChunkUnsent(r, bytes)
          \/ StreamEnd(r)
          \/ StreamFails(r)
    \/ \E r \in Reqs, status \in StreamStatuses :
          \/ RespondRetry(r, status)
          \/ \E headers \in StreamRespHeaders : RespondCommit(r, status, headers)

SpecStream == EngineInit /\ [][StreamNext]_vars

----------------------------------------------------------------------------
(* The stats map on its own: update_stats calls of the handlers in any order,
   and clear_stats *)

StatsSteps == 3

StatsLabels == {None, Some(<< "primary" >>), Some(<< "other" >>)}

StatsCalls ==
    [upstream_id : {"A", "B"}, upstream_label : StatsLabels, duration_ms : {0, 3},
     success : BOOLEAN]

StatsInit ==
    /\ config \in {c \in Configs : c.fallback_retries = 0 /\ c.global_key = None}
    /\ logs = << >>
    /\ stats = << >>
    /\ Started
    /\ RequestsIdle
    /\ pure = [steps |-> 0, call |-> None]

UpdateStats(c) ==
    /\ pure.steps < StatsSteps
    /\ stats' = update_stats(stats, c.upstream_id, c.upstream_label, c.duration_ms,
                             c.success)
    /\ pure' = [steps |-> pure.steps + 1, call |-> Some(c)]
    /\ UNCHANGED << appVars, config, logs, reqVars >>

clear_stats ==
    /\ pure.steps < StatsSteps
    /\ stats' = << >>
    /\ pure' = [steps |-> pure.steps + 1, call |-> None]
    /\ UNCHANGED << appVars, config, logs, reqVars >>

StatsNext ==
    \/ \E c \in StatsCalls : UpdateStats(c)
    \/ clear_stats

SpecStats == StatsInit /\ [][StatsNext]_vars

----------------------------------------------------------------------------
(* A request in the attempt engine while the commands replace the config *)

MaxSwaps == 1

(* A config for the same port whose service "/a" prefers another upstream,
   with another key, and grants another budget. *)
SwapUpB == [id |-> "B", label |-> Some(<< "moved" >>), upstream_base |-> << "http://b2" >>,
            api_key |-> Some(<< "sk2" >>), priority |-> 0, enabled |-> TRUE]

SwapConfigs ==
    {[listen_port |-> 8080, global_key |-> None, proxy_url |-> None,
      fallback_retries |-> n,
      services |-> << [id |-> "s1", name |-> << "two" >>, base_path |-> << "/", "a" >>,
                       enabled |-> TRUE, upstreams |-> << SwapUpB, UpA >>] >>] :
        n \in {0, MaxRetries + 1}}

SwapInit ==
    /\ config \in {c \in Configs : c.global_key = None}
    /\ logs = << >>
    /\ stats = << >>
    /\ Started
    /\ RequestsIdle
    /\ pure = << >>

(* The commands that replace the config, called at most MaxSwaps times. *)
SwapSave(cfg) == command.calls < MaxSwaps /\ save_settings(cfg)

SwapReload(cfg) == command.calls < MaxSwaps /\ reload_proxy(cfg)

SwapRestart(cfg) == command.calls < MaxSwaps /\ StartProxy(cfg)

SwapNext ==
    \/ \E r \in Reqs : Admit(r, << "/", "a", "/", "x" >>, << >>)
    \/ \E r \in Reqs :
          \/ ReadBodyOk(r, << >>)
          \/ Dispatch(r)
          \/ TransportError(r)
          \/ RegularBodyOk(r, RespBody)
    \/ \E r \in Reqs, status \in {200, 503} :
          \/ RespondRetry(r, status)
          \/ RespondCommit(r, status, << >>)
    \/ \E cfg \in SwapConfigs :
          \/ SwapSave(cfg)
          \/ SwapReload(cfg)
          \/ SwapRestart(cfg)

SpecSwap == SwapInit /\ [][SwapNext]_vars

----------------------------------------------------------------------------
(* stop_proxy while responses are streamed: the listener is shut down and the
   finalizer runs while the task of a response whose client is gone is still
   reading from the upstream. *)
ShutdownNext ==
    \/ \E r \in Reqs, path \in EnginePaths : Admit(r, path, << >>)
    \/ \E r \in Reqs :
          \/ ReadBodyOk(r, << >>)
          \/ Dispatch(r)
          \/ TransportError(r)
          \/ ClientDisconnects(r)
          \/ \E bytes \in Chunks(Len(resp[r].chunks) + 1) :
                \/ StreamChunk(r, bytes)
                \/ StreamChunkUnsent(r, bytes)
          \/ StreamEnd(r)
          \/ StreamFails(r)
    \/ \E r \in Reqs, headers \in StreamRespHeaders : RespondCommit(r, 200, headers)
    \/ \E listen_port \in {None, Some(8080)} : stop_proxy(listen_port)

SpecShutdown == EngineInit /\ [][ShutdownNext]_vars

----------------------------------------------------------------------------
(* The log ring under every writer *)

(* The finalizer of stop_proxy on the ring, between the upserts. *)
RingFinalize(listen_port) ==
    /\ pure.steps < RingSteps
    /\ logs' = finalize_inflight(logs, listen_port)
    /\ pure' = [steps |-> pure.steps + 1, last |-> None]
    /\ UNCHANGED << appVars, config, stats, reqVars >>

(* Each operation on the ring holds its mutex from beginning to end, so the
   handlers, the streaming tasks, clear_logs and the finalizer act on it one
   after the other, in any order. *)
RingIdsNext ==
    \/ \E id \in RingIds, status \in RingStatuses : RingUpsert(RingEntry(id, status))
    \/ clear_logs
    \/ \E listen_port \in {None, Some(8080), Some(9090)} : RingFinalize(listen_port)

SpecRingIds == RingInit /\ [][RingIdsNext]_vars

----------------------------------------------------------------------------
(* Claims *)

(* What one upsert of entry e does to the ring, as the ring's contract
   states it. *)
UpsertContract(before, after, e) ==
    IF \E p \in 1..Len(before) : before[p].id = e.id
    THEN \E p \in 1..Len(before) :
            /\ before[p].id = e.id
            /\ after = [before EXCEPT ![p] = e]
    ELSE IF Len(before) + 1 > 200
         THEN after = Tail(before) \o << e >>
         ELSE after = before \o << e >>

UpsertStep == pure'.steps = pure.steps + 1 /\ pure'.last # None

(* C5: the ring never holds more than 200 entries; an upsert of an id that
   is in the ring replaces that entry where it is and changes nothing else;
   an upsert of a new id appends at the tail and drops the head entry, and
   only that one, only when the length would exceed 200. *)
C5_RingUpsert ==
    /\ [](Len(logs) <= 200)
    /\ [][UpsertStep => UpsertContract(logs, logs', Unwrap(pure'.last))]_vars

(* A full ring has taken a new id: the oldest entry is gone, the new one is
   last. *)
C5_Witness ==
    /\ Len(logs) = 200
    /\ pure.last # None
    /\ logs[200] = Unwrap(pure.last)
    /\ logs[1].id = << 2 >>
    /\ logs[200].id = << MAX_LOGS + 1 >>

----------------------------------------------------------------------------
(* Vocabulary of the claims about a request *)

Done(r) == pc[r] = "done"

Admitted(r) == pc[r] # "idle"

RetryBudget(r) == Unwrap(snap[r]).fallback_retries

Dispatches(r) == hist[r].dispatches

(* The rows of the ring that belong to request r: its main entry and its
   sub-logs. *)
RowsOf(r) == {i \in 1..Len(logs) : logs[i].id[1] = r}

MainRows(r) == {i \in 1..Len(logs) : logs[i].id = << r >>}

SubRows(r, u, a) == {i \in 1..Len(logs) : logs[i].id = << r, u, a >>}

UpstreamIds == {"X", "A", "B", "C"}

StatsOf(id) == IF id \in DOMAIN stats THEN stats[id] ELSE NewStats(id, None)

DispatchesTo(r, id) == {i \in 1..Len(Dispatches(r)) : Dispatches(r)[i].upstream_id = id}

(* The services a path selects by longest prefix, and a service's preferred
   upstreams, as the routing rules state them. *)
MatchingServices(cfg, path) ==
    {svc \in Range(cfg.services) :
        svc.enabled /\ (svc.base_path = << "/" >> \/ starts_with(path, svc.base_path))}

LongestMatches(cfg, path) ==
    {svc \in MatchingServices(cfg, path) :
        \A o \in MatchingServices(cfg, path) : Len(o.base_path) <= Len(svc.base_path)}

EnabledUpstreams(svc) == {u \in Range(svc.upstreams) : u.enabled}

PreferredUpstreams(svc) ==
    {u \in EnabledUpstreams(svc) : \A o \in EnabledUpstreams(svc) : u.priority <= o.priority}

IsRouteMiss(cfg, path) ==
    \A svc \in LongestMatches(cfg, path) : EnabledUpstreams(svc) = {}

(* The candidate key of the auth gate: x-proxy-key when it is there and not
   blank, else the Authorization value without its "Bearer " prefix. *)
CandidateKey(headers) ==
    LET proxy == HeaderGet(headers, "x-proxy-key")
        auth == HeaderGet(headers, "authorization")
    IN  IF IsSome(proxy) /\ trim(Unwrap(proxy)) # << >> THEN Some(trim(Unwrap(proxy)))
        ELSE IF IsSome(auth) /\ trim(Unwrap(auth)) # << >>
        THEN IF starts_with(trim(Unwrap(auth)), << "Bearer", " " >>)
             THEN Some(SubSeq(trim(Unwrap(auth)), 3, Len(trim(Unwrap(auth)))))
             ELSE Some(trim(Unwrap(auth)))
        ELSE None

GateRejects(cfg, headers) ==
    IsSome(cfg.global_key) /\ CandidateKey(headers) # cfg.global_key

(* C1: with fallback_retries = 1 and upstreams A, B, when A answers 500 and
   B answers 200 to whatever it is sent, the client receives 200, the main
   entry ends with status 200 and retry_action "fallback", and the stats
   show one error for A and one success for B. *)
C1_FallbackOnRetryableStatus ==
    \A r \in Reqs :
        ( /\ Done(r)
          /\ Len(Dispatches(r)) >= 1
          /\ RetryBudget(r) = 1
          /\ Len(route[r]) = 2
          /\ ~hist[r].body_read_failed
          /\ Dispatches(r)[1].status = Some(500)
          /\ \A i \in 2..Len(Dispatches(r)) : Dispatches(r)[i].status = Some(200) )
        => /\ client[r].status = Some(200)
           /\ \E i \in MainRows(r) :
                 logs[i].status = Some(200) /\ logs[i].retry_action = Some("fallback")
           /\ StatsOf(route[r][1].upstream_id).error_count = 1
           /\ StatsOf(route[r][2].upstream_id).success_count = 1

(* C2: with fallback_retries = 0 a request that reaches the attempt engine
   is dispatched exactly once, to the preferred upstream of its service,
   whatever comes back; nothing is retried and nothing falls back. *)
C2_SingleDispatch ==
    \A r \in Reqs :
        (Admitted(r) /\ RetryBudget(r) = 0)
        => /\ Len(Dispatches(r)) <= 1
           /\ pc[r] \in {"sent", "read_resp", "streaming"} => Len(Dispatches(r)) = 1
           /\ (Done(r) /\ client[r].status \notin {Some(401), Some(503), Some(400)})
                 => Len(Dispatches(r)) = 1
           /\ \A i \in 1..Len(Dispatches(r)) :
                 \E svc \in LongestMatches(config, req[r].path) :
                    \E u \in PreferredUpstreams(svc) : Dispatches(r)[i].upstream_id = u.id
           /\ \A i \in RowsOf(r) : logs[i].retry_action = None

C2_Witness ==
    \E r \in Reqs :
        /\ Done(r)
        /\ RetryBudget(r) = 0
        /\ Len(route[r]) = 2
        /\ Len(Dispatches(r)) = 1
        /\ Dispatches(r)[1].transport_error
        /\ client[r].status = Some(502)

RetryThenSuccess(r) ==
    /\ Done(r)
    /\ RetryBudget(r) = 2
    /\ Len(route[r]) = 1
    /\ ~hist[r].body_read_failed
    /\ Len(Dispatches(r)) = 2
    /\ Dispatches(r)[1].status = Some(503)
    /\ Dispatches(r)[2].status = Some(200)

(* C3: with fallback_retries = 2 and one upstream that answers 503 and then
   200, the client receives 200 and the ring holds, for this request, one
   sub-entry "{id}-1-1" (503, "retry") and one main entry (200, "retry"). *)
C3_RetryThenSuccess ==
    \A r \in Reqs :
        RetryThenSuccess(r)
        => /\ client[r].status = Some(200)
           /\ Cardinality(SubRows(r, 1, 1)) = 1
           /\ Cardinality(MainRows(r)) = 1
           /\ RowsOf(r) = SubRows(r, 1, 1) \cup MainRows(r)
           /\ \A i \in SubRows(r, 1, 1) :
                 logs[i].status = Some(503) /\ logs[i].retry_action = Some("retry")
           /\ \A i \in MainRows(r) :
                 logs[i].status = Some(200) /\ logs[i].retry_action = Some("retry")

C3_Witness ==
    \E r \in Reqs : RetryThenSuccess(r) /\ \E i \in MainRows(r) : logs[i].is_streaming

(* C4: for a completed request the stats calls match its dispatches: each
   upstream was charged once per dispatch sent to it, as a success or as an
   error. *)
C4_StatsMatchDispatches ==
    \A r \in Reqs :
        Done(r)
        => \A id \in UpstreamIds :
              /\ StatsOf(id).total_requests = Cardinality(DispatchesTo(r, id))
              /\ StatsOf(id).success_count + StatsOf(id).error_count
                    = Cardinality(DispatchesTo(r, id))

IsCredentialLine(line) == line[1] \in {"authorization", "x-proxy-key"}

(* C6: no entry of the ring shows an Authorization or x-proxy-key line in
   its request_headers or its response_headers. *)
C6_NoCredentialInLogs ==
    \A i \in 1..Len(logs) :
        /\ IsSome(logs[i].request_headers)
              => \A line \in Range(Unwrap(logs[i].request_headers)) : ~IsCredentialLine(line)
        /\ IsSome(logs[i].response_headers)
              => \A line \in Range(Unwrap(logs[i].response_headers)) : ~IsCredentialLine(line)

(* C9: a request that passes the auth gate and selects no service, or a
   service without an enabled upstream, is answered 503, is dispatched
   nowhere, and leaves the ring and the stats as they were: empty. *)
C9_RouteMiss ==
    \A r \in Reqs :
        ( /\ Admitted(r)
          /\ ~GateRejects(config, req[r].headers)
          /\ IsRouteMiss(config, req[r].path) )
        => /\ Done(r)
           /\ client[r].status = Some(503)
           /\ Dispatches(r) = << >>
           /\ logs = << >>
           /\ stats = << >>

C9_Witness ==
    \E r \in Reqs :
        /\ Done(r)
        /\ client[r].status = Some(503)
        /\ IsSome(config.global_key)
        /\ LongestMatches(config, req[r].path) # {}

(* C10: with a global_key set, a request whose candidate key is missing or
   different is answered 401, leaves one row (status 401, no upstream_url),
   is dispatched nowhere and leaves the stats alone; any other request goes
   on to routing. *)
C10_AuthGate ==
    \A r \in Reqs :
        Admitted(r)
        => IF GateRejects(config, req[r].headers)
           THEN /\ Done(r)
                /\ client[r].status = Some(401)
                /\ Len(logs) = 1
                /\ logs[1].id = << r >>
                /\ logs[1].status = Some(401)
                /\ logs[1].upstream_url = << >>
                /\ Dispatches(r) = << >>
                /\ stats = << >>
           ELSE /\ client[r].status # Some(401)
                /\ \A i \in RowsOf(r) : logs[i].status # Some(401)
                /\ IF IsRouteMiss(config, req[r].path)
                   THEN client[r].status = Some(503)
                   ELSE route[r] # << >>

C10_Witness ==
    \E r \in Reqs :
        /\ Done(r)
        /\ client[r].status = Some(401)
        /\ HeaderGet(req[r].headers, "x-proxy-key") = Some(<< "bad" >>)
        /\ HeaderGet(req[r].headers, "authorization") = Some(<< "Bearer", " ", "pk" >>)

IsCredentialName(h) == h[1] \in {"authorization", "x-goog-api-key"}

IsPlainHeader(h) ==
    h[1] \notin {"authorization", "x-goog-api-key", "host", "content-length", "x-proxy-key"}

(* C7: with an upstream api_key the outbound request carries one credential
   header, x-goog-api-key: <api_key> if the inbound request had an
   x-goog-api-key header and Authorization: Bearer <api_key> otherwise; no
   Host, Content-Length or x-proxy-key; and every other inbound header as
   it came. *)
C7_HeaderRewrite ==
    (pure.prepared # None /\ IsSome(pure.api_key))
    => LET out == Unwrap(pure.prepared).headers
           key == Unwrap(pure.api_key)
           goog == \E i \in 1..Len(pure.headers) : pure.headers[i][1] = "x-goog-api-key"
       IN  /\ SelectSeq(out, IsCredentialName)
                = << IF goog THEN << "x-goog-api-key", key >>
                     ELSE << "authorization", << "Bearer", " " >> \o key >> >>
           /\ \A h \in Range(out) : h[1] \notin {"host", "content-length", "x-proxy-key"}
           /\ SelectSeq(out, IsPlainHeader) = SelectSeq(pure.headers, IsPlainHeader)

(* An inbound request with both credential headers and a plain one. *)
C7_Witness ==
    /\ pure.prepared # None
    /\ pure.api_key = Some(<< "sk" >>)
    /\ pure.headers = << << "x-goog-api-key", << "ck" >> >>,
                         << "authorization", << "Bearer", " ", "ck" >> >> >>
    /\ Unwrap(pure.prepared).headers = << << "x-goog-api-key", << "sk" >> >> >>

(* C8: the selected service is enabled, its base_path is "/" or a prefix of
   the path, no enabled matching service has a longer base_path, and the
   trimmed path is the path without that base_path (the whole path for the
   root service); nothing is selected only when nothing enabled matches. *)
C8_LongestPrefix ==
    pure.routed # None
    => LET service == Unwrap(pure.routed).service
           trimmed_path == Unwrap(pure.routed).trimmed_path
       IN  IF service = None THEN MatchingServices(config, pure.path) = {}
           ELSE LET svc == Unwrap(service)
                IN  /\ svc \in Range(config.services)
                    /\ svc.enabled
                    /\ svc.base_path = << "/" >> \/ starts_with(pure.path, svc.base_path)
                    /\ \A o \in MatchingServices(config, pure.path) :
                          Len(o.base_path) <= Len(svc.base_path)
                    /\ IF svc.base_path = << "/" >> THEN trimmed_path = pure.path
                       ELSE svc.base_path \o trimmed_path = pure.path

(* The root service is listed first and the longer prefix wins. *)
C8_Witness ==
    /\ pure.routed # None
    /\ pure.path = << "/", "a", "/", "b", "/", "c" >>
    /\ Len(config.services) = 2
    /\ config.services[1].base_path = << "/" >> /\ config.services[1].enabled
    /\ Unwrap(pure.routed).service = Some(config.services[2])
    /\ config.services[2].base_path = << "/", "a" >>
    /\ Unwrap(pure.routed).trimmed_path = << "/", "b", "/", "c" >>

(* C11: when reading the client's request body fails the client receives
   400, no upstream is dispatched, and the request's log row is terminal: it
   is stored in the ring with a status set. *)
C11_BodyReadFailure ==
    \A r \in Reqs :
        (Done(r) /\ client[r].status = Some(400))
        => /\ Dispatches(r) = << >>
           /\ Cardinality(MainRows(r)) = 1
           /\ \A i \in MainRows(r) : logs[i].status # None

(* What C12 asks of a stored snapshot. *)
NonDecreasingPriority(upstreams) ==
    \A i \in 1..Len(upstreams), j \in 1..Len(upstreams) :
        i < j => upstreams[i].priority <= upstreams[j].priority

WellFormedService(svc) ==
    /\ svc.base_path # << >>
    /\ svc.base_path[1] = "/"
    /\ svc.base_path = << "/" >> \/ svc.base_path[Len(svc.base_path)] # "/"
    /\ svc.upstreams # << >>
    /\ \A i \in 1..Len(svc.upstreams) : svc.upstreams[i].upstream_base # << >>
    /\ NonDecreasingPriority(svc.upstreams)

WellFormedConfig(cfg) ==
    /\ \A i \in 1..Len(cfg.services) : WellFormedService(cfg.services[i])
    /\ cfg.fallback_retries \in 0..10

StoredBy(cmd) ==
    /\ command.cmd = cmd
    /\ command.error = None
    /\ IsSome(state_config)

(* C12: the snapshot a successful start_proxy or reload_proxy has stored has
   base paths that start with "/" and do not end with "/" unless they are
   "/", services with at least one upstream, upstreams with a non-empty
   upstream_base in non-decreasing priority order, and fallback_retries in
   0..10; so has the cell start_proxy gives the new listener. *)
C12_StoredSnapshotWellFormed ==
    /\ StoredBy("start_proxy")
          => WellFormedConfig(Unwrap(state_config)) /\ WellFormedConfig(config)
    /\ StoredBy("reload_proxy") => WellFormedConfig(Unwrap(state_config))

C12_Witness ==
    /\ StoredBy("reload_proxy")
    /\ Unwrap(state_config).fallback_retries = MAX_FALLBACK_RETRIES
    /\ Len(Unwrap(state_config).services) = 1
    /\ Unwrap(state_config).services[1].base_path = << "/", "a" >>
    /\ Len(Unwrap(state_config).services[1].upstreams) = 2
    /\ Unwrap(state_config).services[1].upstreams[1].id = "B"

ConfigErrors ==
    {"listen_port", "no_services", "no_valid_services", "proxy_url", "port_changed"}

RejectedCall ==
    /\ command'.calls = command.calls + 1
    /\ command'.cmd \in {"start_proxy", "reload_proxy"}
    /\ command'.error \in {Some(e) : e \in ConfigErrors}

(* C13: a start_proxy or reload_proxy call rejected with a configuration
   error leaves the snapshot, the client, the listener registry and its cell,
   the log ring and the stats map as they were. *)
C13_RejectedCallChangesNothing ==
    [][RejectedCall => UNCHANGED << state_config, http_client, inner, config,
                                    logs, stats >>]_vars

C13_Witness ==
    /\ command.cmd = "reload_proxy"
    /\ command.error = Some("proxy_url")
    /\ inner # {}
    /\ IsSome(state_config)
    /\ logs # << >>

AdmissionStep(r) == pc[r] = "idle" /\ pc'[r] # "idle"

(* C14: a request admitted by the running listener after reload_proxy has
   returned successfully is authenticated, routed and given the retry budget
   of the config that reload stored. *)
C14_ReloadSwapsLiveSnapshot ==
    [][\A r \in Reqs :
          (AdmissionStep(r) /\ StoredBy("reload_proxy"))
          => LET new == Unwrap(state_config)
                 rejected == GateRejects(new, req'[r].headers)
                 missed == ~rejected /\ IsRouteMiss(new, req'[r].path)
             IN  /\ client'[r].status = Some(401) <=> rejected
                 /\ client'[r].status = Some(503) <=> missed
                 /\ (~rejected /\ ~missed)
                       => /\ pc'[r] = "read_body"
                          /\ Unwrap(snap'[r]).fallback_retries = new.fallback_retries
                          /\ route'[r] = Unwrap(resolve_route(new, req'[r].path)).upstreams
      ]_vars

(* Vocabulary of C15..C17 *)
RECURSIVE Concatenation(_)
Concatenation(chunks) ==
    IF chunks = << >> THEN << >> ELSE Head(chunks) \o Concatenation(Tail(chunks))

IsPrefix(s, t) == Len(s) <= Len(t) /\ SubSeq(t, 1, Len(s)) = s

(* text is the bytes decoded as UTF-8, with U+FFFD for every invalid byte *)
IsLossyDecoding(text, bytes) ==
    /\ Len(text) = Len(bytes)
    /\ \A i \in 1..Len(bytes) :
          text[i] = IF bytes[i] = InvalidByte THEN ReplacementChar ELSE bytes[i]

Streamed(r) ==
    /\ pc[r] \in {"streaming", "done"}
    /\ resp[r].status # 0
    /\ entry[r].is_streaming

StreamUpstream(r) == hist[r].dispatches[Len(hist[r].dispatches)].upstream_id

(* The ring row of a streamed request: the one of the last dispatch while
   the stream runs, the final one once it is over. *)
StreamRowPending(r) ==
    /\ Cardinality(MainRows(r)) = 1
    /\ \A i \in MainRows(r) :
          /\ logs[i].status = None
          /\ logs[i].response_body = None
          /\ ~logs[i].is_streaming
    /\ StatsOf(StreamUpstream(r)).total_requests
          = Cardinality(DispatchesTo(r, StreamUpstream(r))) - 1

BodyIsConcatenation(r, text) ==
    text = IF resp[r].chunks = << >> THEN << "[stream]" >>
           ELSE Concatenation(resp[r].chunks)

BodyIsDecodedConcatenation(r, text) ==
    IF resp[r].chunks = << >> THEN text = << "[stream]" >>
    ELSE IsLossyDecoding(text, Concatenation(resp[r].chunks))

StreamRowFinal(r, decoded) ==
    /\ Cardinality(MainRows(r)) = 1
    /\ \A i \in MainRows(r) :
          /\ logs[i].is_streaming
          /\ logs[i].status = Some(resp[r].status)
          /\ IsSome(logs[i].response_body)
          /\ IF decoded
             THEN BodyIsDecodedConcatenation(r, Unwrap(logs[i].response_body))
             ELSE BodyIsConcatenation(r, Unwrap(logs[i].response_body))
    /\ StatsOf(StreamUpstream(r)).total_requests
          = Cardinality(DispatchesTo(r, StreamUpstream(r)))

(* C15 as stated: the client of a streamed response has received exactly the
   chunks the upstream produced, in order; the main entry is upserted once
   more only when the stream is over, with is_streaming, the status and the
   concatenation of the chunks (or the placeholder) as response_body, and the
   stats are updated once. *)
C15_StreamingCapture ==
    \A r \in Reqs :
        Streamed(r)
        => /\ client[r].chunks = resp[r].chunks
           /\ pc[r] = "streaming" => StreamRowPending(r)
           /\ pc[r] = "done" => StreamRowFinal(r, FALSE)

(* C15 amended: the client has received a prefix of the chunks read, all of
   them while it is connected; the final entry's response_body is the lossy
   UTF-8 decoding of the concatenation of the chunks read. *)
C15_StreamingCaptureDecoded ==
    \A r \in Reqs :
        Streamed(r)
        => /\ IsPrefix(client[r].chunks, resp[r].chunks)
           /\ ~client[r].gone => client[r].chunks = resp[r].chunks
           /\ pc[r] = "streaming" => StreamRowPending(r)
           /\ pc[r] = "done" => StreamRowFinal(r, TRUE)

C15_Witness ==
    \E r \in Reqs :
        /\ Streamed(r) /\ pc[r] = "done"
        /\ Len(resp[r].chunks) = 2
        /\ Len(client[r].chunks) = 1
        /\ \E i \in 1..Len(resp[r].collected) : resp[r].collected[i] = InvalidByte
        /\ Len(hist[r].dispatches) = 2

(* to_ascii_lowercase of the media types the model's responses carry *)
AsciiLower(t) == IF t = "Text/Event-Stream" THEN "text/event-stream" ELSE t

StreamingMediaTypes == {"text/event-stream", "application/x-ndjson", "text/plain"}

NamesStreamingType(headers) ==
    \E i \in 1..Len(headers) :
        /\ headers[i][1] = "content-type"
        /\ \E k \in 1..Len(headers[i][2]) :
              AsciiLower(headers[i][2][k]) \in StreamingMediaTypes

(* C16: a committed response goes down the streaming path if and only if its
   Content-Type, compared case-insensitively, contains text/event-stream,
   application/x-ndjson or text/plain; every other response, one without a
   Content-Type included, is buffered. *)
C16_ResponseClassification ==
    \A r \in Reqs :
        /\ pc[r] = "streaming" => NamesStreamingType(resp[r].headers)
        /\ pc[r] = "read_resp" => ~NamesStreamingType(resp[r].headers)

(* C17: in every row of the ring request_body is at most 8 000 bytes long,
   and response_body is at most 8 000 bytes for a buffered response and at
   most 64 000 bytes for a streamed one. *)
C17_BodyCaptureBounds ==
    \A i \in 1..Len(logs) :
        /\ IsSome(logs[i].request_body) => ByteLen(Unwrap(logs[i].request_body)) <= 8000
        /\ IsSome(logs[i].response_body)
              => ByteLen(Unwrap(logs[i].response_body))
                    <= IF logs[i].is_streaming THEN 64000 ELSE 8000

(* C18: normalize_base_path is idempotent: normalizing a normalized path
   gives the same path, for every input string. *)
C18_NormalizeIdempotent ==
    pure.twice # None => Unwrap(pure.twice) = Unwrap(pure.once)

RECURSIVE StripTrailingSlashes(_)
StripTrailingSlashes(base) ==
    IF base # << >> /\ base[Len(base)] = "/"
    THEN StripTrailingSlashes(SubSeq(base, 1, Len(base) - 1))
    ELSE base

(* C19: for every base, with any number of trailing slashes,
   build_upstream_url(base, "/") is build_upstream_url of the base without
   its trailing slashes and "/". *)
C19_TrailingSlashesIgnored ==
    pure.url # None
    => Unwrap(pure.url) = build_upstream_url(StripTrailingSlashes(pure.base), << "/" >>)

(* The rows of the ring that get_logs is asked for, by position. *)
AskedRows ==
    {i \in 1..Len(logs) :
        pure.listen_port = None \/ Unwrap(pure.listen_port) = logs[i].listen_port}

AskedCount ==
    Min(Min(IF pure.limit = None THEN 200 ELSE Unwrap(pure.limit), 200),
        Cardinality(AskedRows))

(* C20: get_logs returns, in ring order, the last min(limit, 200) rows (200
   without a limit) among the rows of the given port (all rows without a
   port), never more than 200, and leaves the ring as it is. *)
C20_GetLogs ==
    /\ [](pure.result # None
            => LET result == Unwrap(pure.result)
               IN  /\ Len(result) = AskedCount
                   /\ Len(result) <= 200
                   /\ \A k \in 1..Len(result) :
                         \E i \in AskedRows :
                            /\ result[k] = logs[i]
                            /\ Cardinality({j \in AskedRows : j > i}) = Len(result) - k)
    /\ [][logs' = logs]_vars

C20_Witness ==
    /\ pure.result # None
    /\ Len(logs) = MAX_LOGS
    /\ pure.limit = Some(2)
    /\ pure.listen_port = Some(8080)
    /\ Len(Unwrap(pure.result)) = 2
    /\ Unwrap(pure.result)[2].id = << MAX_LOGS >>

(* The call of stop_proxy that has just returned was given this port. *)
StopStep ==
    /\ command'.calls = command.calls + 1
    /\ command'.cmd = "stop_proxy"

Finalized(row) ==
    [row EXCEPT !.status = Some(499), !.error = Some(<< "proxy stopped" >>)]

(* C21: stop_proxy(port) on a running listener gives every row of that port
   that has no status the status 499 and the "proxy stopped" error and leaves
   its duration_ms and its other fields as they are; every other row (with a
   status, or of another port) and the order and number of rows stay as they
   are; stop_proxy without a port does so for the rows of all ports. *)
C21_InflightFinalizer ==
    [][(StopStep /\ (command'.port = None \/ Unwrap(command'.port) \in inner))
         => /\ Len(logs') = Len(logs)
            /\ \A i \in 1..Len(logs) :
                  IF /\ logs[i].status = None
                     /\ command'.port = None \/ Unwrap(command'.port) = logs[i].listen_port
                  THEN /\ logs'[i] = Finalized(logs[i])
                       /\ logs'[i].duration_ms = logs[i].duration_ms
                  ELSE logs'[i] = logs[i]
      ]_vars

C21_Witness ==
    /\ command.cmd = "stop_proxy"
    /\ command.port = Some(8080)
    /\ inner = {9090}
    /\ Len(logs) = 2
    /\ logs[1].listen_port = 8080 /\ logs[1].status = Some(499) /\ logs[1].duration_ms = 7
    /\ logs[2].listen_port = 9090 /\ logs[2].status = None

(* Vocabulary of the claims about the attempt engine *)

(* retries_per_upstream = max(R - 1, 0) *)
RetriesPerUpstream(r) == IF RetryBudget(r) >= 1 THEN RetryBudget(r) - 1 ELSE 0

FallbackAllowed(r) == RetryBudget(r) >= 1

IsRetryable(status) == status \in 500..599 \cup {408, 429}

(* The upstream answers the dispatch the handler of r is waiting for. *)
ResponseStep(r) ==
    /\ pc[r] = "sent"
    /\ Dispatches(r)'[Len(Dispatches(r))].status # None

ReceivedStatus(r) == Unwrap(Dispatches(r)'[Len(Dispatches(r))].status)

CurrentUpstream(r) == route[r][up_idx[r] + 1]

(* The step counts n more errors for the upstream. *)
ErrorsCharged(id, n) ==
    /\ id \in DOMAIN stats'
    /\ stats'[id].error_count = StatsOf(id).error_count + n

(* The dispatch d got a retryable status while an attempt remained. *)
RetriedResponse(r, d) ==
    /\ IsSome(d.status)
    /\ IsRetryable(Unwrap(d.status))
    /\ d.attempt < RetriesPerUpstream(r)

(* C22: a response received at attempt (u, a) with a retryable status (5xx,
   408, 429) while a < retries_per_upstream gives a sub-log "{id}-{u+1}-{a+1}"
   with the received status and retry_action "retry", one more error for the
   upstream, and the next dispatch to the same upstream; every other response
   is committed as the final outcome and no dispatch follows it. *)
C22_ResponseClassification ==
    /\ [][\A r \in Reqs :
            ResponseStep(r)
            => IF IsRetryable(ReceivedStatus(r)) /\ attempt[r] < RetriesPerUpstream(r)
               THEN /\ \E i \in 1..Len(logs') :
                          /\ logs'[i].id = << r, up_idx[r] + 1, attempt[r] + 1 >>
                          /\ logs'[i].status = Some(ReceivedStatus(r))
                          /\ logs'[i].retry_action = Some("retry")
                    /\ ErrorsCharged(CurrentUpstream(r).upstream_id, 1)
                    /\ pc'[r] = "dispatch"
                    /\ up_idx'[r] = up_idx[r] /\ attempt'[r] = attempt[r] + 1
               ELSE /\ pc'[r] \in {"read_resp", "streaming"}
                    /\ resp'[r].status = ReceivedStatus(r)
                    /\ entry'[r].status = Some(ReceivedStatus(r))
                    /\ logs' = logs /\ stats' = stats
         ]_vars
    /\ [](\A r \in Reqs : \A i \in 1..Len(Dispatches(r)) :
            LET d == Dispatches(r)[i]
            IN  IF RetriedResponse(r, d)
                THEN IF i < Len(Dispatches(r))
                     THEN /\ Dispatches(r)[i + 1].up_idx = d.up_idx
                          /\ Dispatches(r)[i + 1].attempt = d.attempt + 1
                     ELSE pc[r] = "dispatch"
                ELSE IsSome(d.status)
                     => /\ i = Len(Dispatches(r))
                        /\ pc[r] \in {"read_resp", "streaming", "done"}
                        /\ resp[r].status = Unwrap(d.status))

C22_Witness ==
    \E r \in Reqs :
        /\ Done(r)
        /\ RetryBudget(r) = 2
        /\ Len(Dispatches(r)) = 2
        /\ Dispatches(r)[1].status = Some(429)
        /\ Dispatches(r)[2].status = Some(408)
        /\ client[r].status = Some(408)
        /\ \E i \in SubRows(r, 1, 1) : logs[i].status = Some(429)

(* The dispatch the handler of r is waiting for fails in the transport. *)
TransportStep(r) ==
    /\ pc[r] = "sent"
    /\ Dispatches(r)'[Len(Dispatches(r))].transport_error

(* What follows a transport error at attempt (u, a). *)
AfterTransportError(r, u, a) ==
    IF a < RetriesPerUpstream(r) THEN "retry"
    ELSE IF FallbackAllowed(r) /\ u + 1 < Len(route[r]) THEN "fallback"
    ELSE "none"

ActionLabel(what) == IF what = "none" THEN None ELSE Some(what)

(* C23: a transport error at attempt (u, a) gives a sub-log "{id}-{u+1}-{a+1}"
   with status 502 and one more error for the upstream; the sub-log's
   retry_action is "retry" if a < retries_per_upstream, else "fallback" if
   R >= 1 and a lower-priority upstream remains, else absent; the next
   dispatch is the same upstream, the next upstream at attempt 0, or none. *)
C23_TransportError ==
    /\ [][\A r \in Reqs :
            TransportStep(r)
            => LET what == AfterTransportError(r, up_idx[r], attempt[r])
               IN  /\ \E i \in 1..Len(logs') :
                         /\ logs'[i].id = << r, up_idx[r] + 1, attempt[r] + 1 >>
                         /\ logs'[i].status = Some(502)
                         /\ logs'[i].retry_action = ActionLabel(what)
                   /\ ErrorsCharged(CurrentUpstream(r).upstream_id, 1)
                   /\ what = "retry"
                         => /\ pc'[r] = "dispatch"
                            /\ up_idx'[r] = up_idx[r] /\ attempt'[r] = attempt[r] + 1
                   /\ what = "fallback"
                         => /\ pc'[r] = "dispatch"
                            /\ up_idx'[r] = up_idx[r] + 1 /\ attempt'[r] = 0
                   /\ what = "none" => pc'[r] = "done"
         ]_vars
    /\ [](\A r \in Reqs : \A i \in 1..Len(Dispatches(r)) :
            LET d == Dispatches(r)[i]
                what == AfterTransportError(r, d.up_idx, d.attempt)
            IN  d.transport_error
                => IF i < Len(Dispatches(r))
                   THEN \/ /\ what = "retry"
                            /\ Dispatches(r)[i + 1].up_idx = d.up_idx
                            /\ Dispatches(r)[i + 1].attempt = d.attempt + 1
                        \/ /\ what = "fallback"
                            /\ Dispatches(r)[i + 1].up_idx = d.up_idx + 1
                            /\ Dispatches(r)[i + 1].attempt = 0
                   ELSE IF what = "none" THEN pc[r] = "done" ELSE pc[r] = "dispatch")

C23_Witness ==
    \E r \in Reqs :
        /\ Done(r)
        /\ RetryBudget(r) = 2
        /\ Len(route[r]) = 2
        /\ Len(Dispatches(r)) = 4
        /\ \A i \in 1..4 : Dispatches(r)[i].transport_error
        /\ \E i \in SubRows(r, 1, 1) : logs[i].retry_action = Some("retry")
        /\ \E i \in SubRows(r, 1, 2) : logs[i].retry_action = Some("fallback")
        /\ \E i \in SubRows(r, 2, 2) : logs[i].retry_action = None

(* The request ended on a transport error: no attempt and no permitted
   upstream was left. *)
Exhausted(r) ==
    /\ Done(r)
    /\ Dispatches(r) # << >>
    /\ Dispatches(r)[Len(Dispatches(r))].transport_error

(* The error of a failed attempt. *)
AttemptError(d) ==
    IF d.transport_error THEN << "connect error" >>
    ELSE << "upstream returned ", ToString(Unwrap(d.status)) >>

(* C24: when the last permitted attempt fails with a transport error and
   neither an attempt on the same upstream nor a permitted lower-priority
   upstream remains, the main entry is upserted with status 502 and an error
   that joins the errors of all failed attempts, and the client gets 502. *)
C24_Exhaustion ==
    \A r \in Reqs :
        Exhausted(r)
        => /\ client[r].status = Some(502)
           /\ AfterTransportError(r, up_idx[r], attempt[r]) = "none"
           /\ Cardinality(MainRows(r)) = 1
           /\ \A i \in MainRows(r) :
                 /\ logs[i].status = Some(502)
                 /\ logs[i].error =
                       Some(<< "upstream request failed: " >>
                            \o [k \in 1..Len(Dispatches(r)) |->
                                   AttemptError(Dispatches(r)[k])])

C24_Witness ==
    \E r \in Reqs :
        /\ Exhausted(r)
        /\ RetryBudget(r) = 2
        /\ Len(route[r]) = 2
        /\ Len(Dispatches(r)) = 4
        /\ Dispatches(r)[1].status = Some(503)
        /\ Dispatches(r)[2].transport_error
        /\ Dispatches(r)[3].status = Some(429)

(* The response received at this step is committed. *)
CommitStep(r) == ResponseStep(r) /\ pc'[r] \in {"read_resp", "streaming"}

CommitLabel(u, a) ==
    IF u > 0 THEN Some("fallback") ELSE IF a > 0 THEN Some("retry") ELSE None

(* The request ended with a committed response. *)
Committed(r) ==
    /\ pc[r] \in {"read_resp", "streaming", "done"}
    /\ Dispatches(r) # << >>
    /\ IsSome(Dispatches(r)[Len(Dispatches(r))].status)

(* C25: on the final commit of a response received at attempt (u, a) the main
   entry's retry_action is "fallback" if u > 0, else "retry" if a > 0, else
   absent: a request answered by its first dispatch has none. *)
C25_CommitRetryAction ==
    /\ [][\A r \in Reqs :
            CommitStep(r)
            => entry'[r].retry_action = CommitLabel(up_idx[r], attempt[r])]_vars
    /\ [](\A r \in Reqs :
            Committed(r)
            => LET d == Dispatches(r)[Len(Dispatches(r))]
               IN  /\ entry[r].retry_action = CommitLabel(d.up_idx, d.attempt)
                   /\ Done(r) => \A i \in MainRows(r) :
                         logs[i].retry_action = CommitLabel(d.up_idx, d.attempt)
                   /\ Len(Dispatches(r)) = 1 => entry[r].retry_action = None)

C25_Witness ==
    \E r \in Reqs :
        /\ Done(r) /\ Committed(r)
        /\ Dispatches(r)[Len(Dispatches(r))].up_idx = 1
        /\ Dispatches(r)[Len(Dispatches(r))].attempt = 1
        /\ \E i \in MainRows(r) :
              logs[i].status = Some(200) /\ logs[i].retry_action = Some("fallback")

(* The enabled upstreams of the service the request's path selects in the
   config the request read. *)
ServiceUpstreams(r) ==
    UNION {EnabledUpstreams(svc) : svc \in LongestMatches(Unwrap(snap[r]), req[r].path)}

(* i precedes j in the lexicographic order of (upstream index, attempt). *)
LexLess(d, e) ==
    d.up_idx < e.up_idx \/ (d.up_idx = e.up_idx /\ d.attempt < e.attempt)

(* C26: a request's dispatches go only to enabled upstreams of the selected
   service, in ascending priority order; their (upstream index, attempt)
   pairs increase strictly in lexicographic order; each upstream receives at
   most max(R-1, 0) + 1 dispatches and the request at most
   n * (max(R-1, 0) + 1) for n enabled upstreams. *)
C26_DispatchOrderAndBound ==
    \A r \in Reqs :
        Dispatches(r) # << >>
        => LET D == Dispatches(r)
               n == Cardinality(ServiceUpstreams(r))
           IN  /\ \A i \in 1..Len(D) :
                     \E u \in ServiceUpstreams(r) :
                        /\ u.id = D[i].upstream_id
                        /\ Cardinality({o \in ServiceUpstreams(r) :
                                           o.priority < u.priority}) = D[i].up_idx
               /\ \A i, j \in 1..Len(D) :
                     i < j => /\ LexLess(D[i], D[j])
                              /\ D[i].up_idx <= D[j].up_idx
               /\ \A i \in 1..Len(D) : D[i].attempt <= RetriesPerUpstream(r)
               /\ \A id \in UpstreamIds :
                     Cardinality(DispatchesTo(r, id)) <= RetriesPerUpstream(r) + 1
               /\ Len(D) <= n * (RetriesPerUpstream(r) + 1)

C26_Witness ==
    \E r \in Reqs :
        /\ Done(r)
        /\ RetryBudget(r) = 2
        /\ Cardinality(ServiceUpstreams(r)) = 2
        /\ Len(Dispatches(r)) = 4
        /\ Dispatches(r)[2].upstream_id = "A"
        /\ Dispatches(r)[3].upstream_id = "B"

(* The handler of r sends a request to an upstream. *)
DispatchStep(r) == Len(Dispatches(r)') = Len(Dispatches(r)) + 1

(* r is in the attempt engine or its committed response is being forwarded. *)
InFlight(r) == pc[r] \in {"dispatch", "sent", "read_resp", "streaming"}

(* C27: every dispatch of a request comes with an upsert of its main entry
   (id = request id) that has no status and has the upstream_url and
   upstream_label of the upstream dispatched to; so from its first dispatch
   to its final outcome the request's main entry in the ring has no status. *)
C27_MidFlightVisibility ==
    /\ [][\A r \in Reqs :
            DispatchStep(r)
            => /\ Cardinality(MainRows(r)') = 1
               /\ \A i \in MainRows(r)' :
                     /\ logs'[i].status = None
                     /\ logs'[i].upstream_url = CurrentUpstream(r).upstream_url
                     /\ logs'[i].upstream_label = CurrentUpstream(r).upstream_label
                     /\ logs'[i].upstream_url
                           = Dispatches(r)'[Len(Dispatches(r)')].url]_vars
    /\ [](\A r \in Reqs :
            InFlight(r)
            => /\ Dispatches(r) # << >> => MainRows(r) # {}
               /\ \A i \in MainRows(r) : logs[i].status = None)

C27_Witness ==
    \E r \in Reqs :
        /\ pc[r] = "sent"
        /\ up_idx[r] = 1
        /\ \E i \in MainRows(r) :
              /\ logs[i].status = None
              /\ logs[i].upstream_url = << "http://b", "/", "x" >>
              /\ logs[i].upstream_label = None
        /\ \E i \in SubRows(r, 1, 1) : logs[i].upstream_label = Some(<< "primary" >>)

(* An update_stats call, or clear_stats, has just returned. *)
UpdateStatsStep == pure'.steps = pure.steps + 1 /\ pure'.call # None

ClearStatsStep == pure'.steps = pure.steps + 1 /\ pure'.call = None

Counters == {"total_requests", "success_count", "error_count", "total_duration_ms"}

(* The value of a counter of an upstream before it has a record. *)
CounterOf(map, id, counter) == IF id \in DOMAIN map THEN map[id][counter] ELSE 0

(* C28: update_stats(upstream_id, label, duration, success) creates the
   upstream's record if it is missing, adds 1 to its total_requests, adds 1 to
   success_count or to error_count according to success and leaves the other,
   adds duration to total_duration_ms, fills upstream_label only if it was
   absent, and leaves the records of the other upstreams as they are; unless
   clear_stats is called no counter ever decreases. *)
C28_UpdateStats ==
    /\ [][UpdateStatsStep
            => LET c == Unwrap(pure'.call)
                   id == c.upstream_id
               IN  /\ DOMAIN stats' = DOMAIN stats \cup {id}
                   /\ stats'[id].upstream_id = id
                   /\ stats'[id].total_requests = CounterOf(stats, id, "total_requests") + 1
                   /\ stats'[id].success_count
                         = CounterOf(stats, id, "success_count") + (IF c.success THEN 1 ELSE 0)
                   /\ stats'[id].error_count
                         = CounterOf(stats, id, "error_count") + (IF c.success THEN 0 ELSE 1)
                   /\ stats'[id].total_duration_ms
                         = CounterOf(stats, id, "total_duration_ms") + c.duration_ms
                   /\ stats'[id].upstream_label
                         = IF id \in DOMAIN stats /\ stats[id].upstream_label # None
                           THEN stats[id].upstream_label
                           ELSE c.upstream_label
                   /\ \A k \in DOMAIN stats \ {id} : stats'[k] = stats[k]]_vars
    /\ [][~ClearStatsStep
            => \A k \in DOMAIN stats :
                  /\ k \in DOMAIN stats'
                  /\ \A counter \in Counters : stats'[k][counter] >= stats[k][counter]]_vars

C28_Witness ==
    /\ pure.call # None
    /\ Unwrap(pure.call).upstream_id = "A"
    /\ Unwrap(pure.call).upstream_label = Some(<< "other" >>)
    /\ DOMAIN stats = {"A", "B"}
    /\ stats["A"].upstream_label = Some(<< "primary" >>)
    /\ stats["A"].total_requests = 2
    /\ stats["A"].success_count = 1 /\ stats["A"].error_count = 1
    /\ stats["A"].total_duration_ms = 3

(* The upstreams of the config the request read at admission. *)
SnapshotRoute(r) == Unwrap(resolve_route(Unwrap(snap[r]), req[r].path)).upstreams

(* C29: a request in flight keeps the config it read at admission: when the
   listener's config is replaced while the request is in the attempt engine,
   the upstreams it dispatches to and their order, their URLs and api_keys,
   and its retry budget are those of the snapshot taken at admission. *)
C29_InFlightKeepsSnapshot ==
    /\ [][\A r \in Reqs :
            /\ AdmissionStep(r) => snap'[r] = Some(config)
            /\ pc[r] # "idle" => snap'[r] = snap[r]]_vars
    /\ [](\A r \in Reqs : \A i \in 1..Len(Dispatches(r)) :
            LET d == Dispatches(r)[i]
                u == SnapshotRoute(r)[d.up_idx + 1]
            IN  /\ d.up_idx < Len(SnapshotRoute(r))
                /\ d.upstream_id = u.upstream_id
                /\ d.url = u.upstream_url
                /\ d.headers = prepare_upstream_request(req[r].headers, u.api_key).headers
                /\ d.attempt <= RetriesPerUpstream(r)
                /\ d.up_idx > 0 => FallbackAllowed(r))

C29_Witness ==
    \E r \in Reqs :
        /\ Done(r)
        /\ command.cmd = "save_settings"
        /\ config # Unwrap(snap[r])
        /\ config.fallback_retries = 0
        /\ RetryBudget(r) = 2
        /\ Len(Dispatches(r)) = 4
        /\ Dispatches(r)[1].calls = 0
        /\ \A i \in 2..4 : Dispatches(r)[i].calls = 1
        /\ Dispatches(r)[2].upstream_id = "A"
        /\ Dispatches(r)[4].url = << "http://b", "/", "x" >>

(* The body of a committed response that is not streaming has been read. *)
BufferedStep(r) ==
    /\ pc[r] = "read_resp" /\ pc'[r] = "done"
    /\ ~hist'[r].body_read_failed

BufferedFailStep(r) ==
    /\ pc[r] = "read_resp" /\ pc'[r] = "done"
    /\ hist'[r].body_read_failed

SuccessesCharged(id, n) ==
    /\ id \in DOMAIN stats'
    /\ stats'[id].success_count = StatsOf(id).success_count + n

(* C30: a committed response that is not streaming is forwarded to the client
   with the upstream's status and body, and the main entry is upserted once
   with that status; for a status >= 400 the entry's error is set and the
   upstream's error_count grows by one, otherwise its success_count grows by
   one; if reading the upstream body fails the client receives 502. *)
C30_BufferedPath ==
    [][\A r \in Reqs :
          /\ BufferedStep(r)
                => LET status == resp[r].status
                       id == CurrentUpstream(r).upstream_id
                   IN  /\ client'[r].status = Some(status)
                       /\ Len(client'[r].chunks) = 1 /\ client'[r].closed
                       /\ entry'[r].response_body
                             = truncate_body(client'[r].chunks[1], 8000)
                       /\ Cardinality(MainRows(r)') = 1
                       /\ \A i \in MainRows(r)' :
                             /\ logs'[i] = entry'[r]
                             /\ logs'[i].status = Some(status)
                             /\ status >= 400 => logs'[i].error # None
                       /\ \A i \in 1..Len(logs) :
                             logs[i].id # << r >> => logs'[i] = logs[i]
                       /\ IF status >= 400
                          THEN ErrorsCharged(id, 1) /\ SuccessesCharged(id, 0)
                          ELSE SuccessesCharged(id, 1) /\ ErrorsCharged(id, 0)
          /\ BufferedFailStep(r) => client'[r].status = Some(502)
      ]_vars

(* The for loops have run out: a `continue` was taken on the last turn of
   0..=retries_per_upstream or a `break` on the last upstream, and the handler
   is at the Err(BAD_GATEWAY) that follows the loops.  The inner range is
   never empty, so the loops end in no other way. *)
LoopsRanOut(r) ==
    /\ pc[r] \in {"dispatch", "sent"}
    /\ \/ up_idx[r] >= Len(route[r])
       \/ attempt[r] > RetriesPerUpstream(r)

(* The main entry of the request is final: it has a status and, for a
   failure, an error. *)
MainEntryFinal(r) ==
    /\ Cardinality(MainRows(r)) = 1
    /\ \A i \in MainRows(r) :
          /\ logs[i].status = Some(502)
          /\ logs[i].error # None

(* C31: the attempt loops never run out; a request that has entered the
   attempt engine and is over has either committed an upstream response or
   ended on the exhaustion branch, which leaves a final main entry. *)
C31_LoopsEndByReturn ==
    \A r \in Reqs :
        /\ route[r] # << >> => ~LoopsRanOut(r)
        /\ (Done(r) /\ Dispatches(r) # << >>)
              => \/ Committed(r) /\ resp[r].status # 0
                 \/ /\ Exhausted(r)
                    /\ resp[r].status = 0
                    /\ client[r].status = Some(502)
                    /\ MainEntryFinal(r)

C31_Witness ==
    \E r \in Reqs :
        /\ Exhausted(r)
        /\ RetryBudget(r) = 1
        /\ Len(route[r]) = 2
        /\ Len(Dispatches(r)) = 2
        /\ up_idx[r] = 1 /\ attempt[r] = 0
        /\ \A i \in 1..2 : Dispatches(r)[i].transport_error

(* The string s holds the string p somewhere. *)
ContainsString(s, p) ==
    \E k \in 0..(Len(s) - Len(p)) : SubSeq(s, k + 1, k + Len(p)) = p

(* C32: no outbound header of a dispatch of a request that passed the auth
   gate of a listener with a global_key carries the value of that key. *)
C32_GlobalKeyNotForwarded ==
    \A r \in Reqs :
        (Admitted(r) /\ IsSome(Unwrap(snap[r]).global_key))
        => \A i \in 1..Len(Dispatches(r)) :
              \A k \in 1..Len(Dispatches(r)[i].headers) :
                 ~ContainsString(Dispatches(r)[i].headers[k][2],
                                 Unwrap(Unwrap(snap[r]).global_key))

(* C33: the main entry of a request that is over and has a row in the ring
   holds the status the client was answered with. *)
C33_LoggedStatusIsClientStatus ==
    \A r \in Reqs :
        (Done(r) /\ MainRows(r) # {})
        => \A i \in MainRows(r) :
              /\ IsSome(client[r].status)
              /\ logs[i].status = client[r].status

(* C34: the status of a row of the ring is stable once set: a row that has
   a status keeps it for as long as its id is in the ring. *)
C34_StatusStable ==
    [][\A i \in 1..Len(logs) :
          IsSome(logs[i].status)
          => \A j \in 1..Len(logs') :
                logs'[j].id = logs[i].id => logs'[j].status = logs[i].status]_vars

RingIdSet == {logs[i].id : i \in 1..Len(logs)}

(* C35: the ids of the rows of the ring are pairwise distinct, whatever the
   order of the upserts of the handlers and the streaming tasks, of clear_logs
   and of the finalizer; an entry that was just upserted is in the ring, in a
   row of its own. *)
C35_DistinctIds ==
    /\ Cardinality(RingIdSet) = Len(logs)
    /\ IsSome(pure.last)
          => Cardinality({i \in 1..Len(logs) : logs[i] = Unwrap(pure.last)}) = 1

(* A main entry and its sub-log in separate rows of a full ring, the main
   entry upserted twice. *)
C35_Witness ==
    /\ Len(logs) = MAX_LOGS
    /\ pure.steps = 3
    /\ logs[MAX_LOGS - 1].id = << MAX_LOGS + 1 >>
    /\ logs[MAX_LOGS - 1].status = Some(502)
    /\ logs[MAX_LOGS].id = << MAX_LOGS + 1, 1, 1 >>
    /\ pure.last = Some(logs[MAX_LOGS - 1])

(* C36: every record of the stats map has total_requests = success_count +
   error_count, whatever the order of the update_stats calls of the handlers
   and the streaming tasks and of clear_stats. *)
C36_StatsBalanced ==
    \A id \in DOMAIN stats :
        stats[id].total_requests = stats[id].success_count + stats[id].error_count

(* A failed attempt counted on a map that clear_stats has emptied. *)
C36_Witness ==
    /\ pure.steps = 3
    /\ DOMAIN stats = {"B"}
    /\ stats["B"].total_requests = 1
    /\ stats["B"].success_count = 0
    /\ stats["B"].error_count = 1
    /\ pure.call # None /\ ~Unwrap(pure.call).success

(* A call of start_proxy returns an error. *)
StartFails ==
    /\ command'.calls = command.calls + 1
    /\ command'.cmd = "start_proxy"
    /\ command'.error # None

(* C37: a start_proxy call that returns an error leaves the registry of the
   running listeners, the stored snapshot and the HTTP client as they were. *)
C37_FailedStartChangesNothing ==
    [][StartFails => UNCHANGED << inner, state_config, http_client >>]_vars

(* C38: the config that the handler of a running listener reads has, for
   every service, a canonical base_path, at least one upstream, a non-empty
   upstream_base on every upstream, and the upstreams in non-decreasing
   priority order. *)
C38_LiveConfigNormalized ==
    config.listen_port \in inner
    => \A i \in 1..Len(config.services) : WellFormedService(config.services[i])

(* The sub-log rows of request r. *)
SubLogRows(r) == RowsOf(r) \ MainRows(r)

SubLogIds(r) == {logs[i].id : i \in SubLogRows(r)}

(* C39: a finished request that entered the attempt engine has left one
   sub-log row, each with an id of its own, per dispatch but the last when it
   committed a response, and one per dispatch when it ended by exhaustion;
   while an attempt is still to come the main entry has no status. *)
C39_SubLogCount ==
    \A r \in Reqs :
        /\ (Done(r) /\ Committed(r))
              => /\ Cardinality(SubLogRows(r)) = Len(Dispatches(r)) - 1
                 /\ Cardinality(SubLogIds(r)) = Len(Dispatches(r)) - 1
        /\ Exhausted(r)
              => /\ Cardinality(SubLogRows(r)) = Len(Dispatches(r))
                 /\ Cardinality(SubLogIds(r)) = Len(Dispatches(r))
        /\ pc[r] \in {"dispatch", "sent"}
              => \A i \in MainRows(r) : logs[i].status = None

C39_Witness ==
    \E r \in Reqs :
        /\ Done(r) /\ Committed(r)
        /\ Len(Dispatches(r)) = 3
        /\ Dispatches(r)[1].status = Some(500)
        /\ Dispatches(r)[2].transport_error
        /\ Dispatches(r)[3].status = Some(404)
        /\ SubLogIds(r) = { << r, 1, 1 >>, << r, 1, 2 >> }

====
